---- MODULE Spec2Model ----
(***************************************************************************)
(* Verification model of the OceanStream noise-mask pipeline and shoal     *)
(* analysis: ordered application of noise masks, parallel mask creation,    *)
(* mask attachment, connected-component labelling of shoals and the         *)
(* per-shoal, per-channel metric records.                                    *)
(***************************************************************************)
EXTENDS Integers, Sequences, FiniteSets, TLC

VARIABLES
    \* ---- apply_selected_noise_masks_and_or_noise_removal ----
    aCaller,    \* the dataset object the caller passed in
    aRequest,   \* processes_to_apply, as the sequence of its keys in iteration order
    aDs,        \* the local variable ds of the handler
    aPc,        \* position of the handler: "validate", "apply", "done"
    aIdx,       \* loop index of the current for loop
    aApplied,   \* history: the processes applied so far, in order
    aOutcome    \* "running", "returned" or "ValueError"

applyVars == <<aCaller, aRequest, aDs, aPc, aIdx, aApplied, aOutcome>>

VARIABLES
    \* ---- create_masks ----
    cConfig,        \* config: the enabled flag of every dict-valued item
    cProfile,       \* config["profile"]
    cPc,            \* position of create_masks: "submit", "collect", "done"
    cIdx,           \* index of the config item the submit loop is at
    cFutureKind,    \* future_to_mask_type: the futures, in submission order
    cFutureState,   \* per future: "queued", "running", "ok", "exc"
    cYielded,       \* futures already yielded by as_completed
    cMasks,         \* the list masks
    cProfiling,     \* profiling_info
    cOutcome        \* "running", "returned" or "raised"

createVars == <<cConfig, cProfile, cPc, cIdx, cFutureKind, cFutureState,
                cYielded, cMasks, cProfiling, cOutcome>>

VARIABLES
    \* ---- split_shoal_mask / process_shoals ----
    sMask,      \* Sv["mask_shoal"]: cell -> BOOLEAN
    sMissing,   \* the cells where Sv["Sv"] is missing (NaN)
    sPc,        \* "ready", "split", "processed", "done", "split_only"
    sShoals,    \* the list returned by split_shoal_mask
    sDicts,     \* the list dicts of process_shoals
    sResult,    \* the list returned by process_shoals
    sOutcome    \* "running", "returned" or "raised"

shoalVars == <<sMask, sMissing, sPc, sShoals, sDicts, sResult, sOutcome>>

VARIABLES
    \* ---- attach_mask_to_dataset / attach_masks_to_dataset ----
    tStore,     \* the dataset objects: object id -> dataset (variable name -> variable)
    tInput,     \* the value of the caller's dataset object when the call began
    tMasks,     \* the argument masks
    tIdx,       \* index of the mask the loop is at
    tCur,       \* the object the local variable Sv refers to
    tPc,        \* "loop", "done"
    tOutcome    \* "running", "returned" or "ValueError"

attachVars == <<tStore, tInput, tMasks, tIdx, tCur, tPc, tOutcome>>

VARIABLES
    \* ---- create_noise_masks_rapidkrill, create_default_noise_masks_oceanstream,
    \*      create_noise_masks_oceanstream ----
    pFunc,      \* the preset function called
    pSource,    \* source_Sv: variable name -> variable
    pPc,        \* "create", "attach", "done"
    pIdx,       \* index of the next mask to create, or to attach
    pMasks,     \* the masks created so far, in creation order
    pSv,        \* the local variable Sv of attach_masks_to_dataset
    pOutcome    \* "running", "returned", "ValueError" or "detection error"

presetVars == <<pFunc, pSource, pPc, pIdx, pMasks, pSv, pOutcome>>

VARIABLES
    \* ---- apply_mask_organisms_in_order ----
    oCaller,    \* the dataset object the caller passed in
    oRequest,   \* processes_to_apply, as the sequence of its keys in iteration order
    oDs,        \* the local variable ds
    oIdx,       \* index of the key the loop is at
    oApplied,   \* history: the masks applied so far, in order
    oPc,        \* "loop", "done"
    oOutcome    \* "running", "returned", "ValueError" or "KeyError"

organismVars == <<oCaller, oRequest, oDs, oIdx, oApplied, oPc, oOutcome>>

VARIABLES
    \* ---- find_mask_freq_diff / apply_freq_diff ----
    fFunc,      \* the function called
    fArgs,      \* the six optional parameters, each None or a value
    fPc,        \* "call", "done"
    fResult,    \* the value returned
    fOutcome    \* "running", "returned" or "ValueError"

freqVars == <<fFunc, fArgs, fPc, fResult, fOutcome>>

VARIABLES
    \* ---- cli.main and cli.process_file ----
    kIsFile,    \* os.path.isfile(args.raw_data_source)
    kExportCsv, \* config["export_csv"]
    kMasks,     \* the number of masks create_masks returns for the file
    kStage,     \* index of the next statement of process_file
    kRaised,    \* the statement of process_file that raised, or None
    kLogged,    \* logging.exception has been called
    kExit,      \* the exit status of the process, or None while it runs
    kPc         \* "main", "process", "done"

cliVars == <<kIsFile, kExportCsv, kMasks, kStage, kRaised, kLogged, kExit, kPc>>

VARIABLES
    \* ---- raw_handler.file_integrity_checking ----
    iFile,      \* the file: the parts of its name and what its content holds
    iUseSwap,   \* the argument use_swap
    iLocals,    \* metadata, campaign_id, date, sonar_model, file_integrity
    iResult,    \* return_dict
    iPc,        \* "extension", "name", "return", "done"
    iOutcome    \* "running", "returned", "Exception" or "TypeError"

integrityVars == <<iFile, iUseSwap, iLocals, iResult, iPc, iOutcome>>

VARIABLES
    \* ---- apply_masks.apply_seabed_mask ----
    bConfig,    \* config: the enabled flags of seabed and false_seabed
    bDs,        \* the argument ds
    bPc,        \* "call", "applying", "done"
    bResult     \* the dataset returned

seabedVars == <<bConfig, bDs, bPc, bResult>>

coreVars == <<applyVars, createVars, shoalVars, attachVars>>

VARIABLES
    \* ---- sv_dataset_extension.enrich_sv_dataset ----
    eKwargs,    \* the names of the keyword arguments given
    eRaises,    \* which of the three echopype calls raise
    ePc,        \* "depth", "location", "angle", "return", "done"
    eCalls,     \* the echopype calls made, with their keyword arguments
    eWarnings,  \* the warnings issued
    eSv,        \* enriched_sv: the variables added to the copy of sv
    eOutcome    \* "running", "returned", "raised"

enrichVars == <<eKwargs, eRaises, ePc, eCalls, eWarnings, eSv, eOutcome>>

VARIABLES
    \* ---- ensure_time_continuity.fix_time_reversions ----
    fxEr,        \* er: beam group -> time coordinate -> series of times
    fxGiven,     \* the argument time_dict: None, a dict, or a list of pairs
    fxTimeDict,  \* the local time_dict being iterated
    fxIdx,       \* position of the for loop
    fxPc,        \* "start", "loop", "done"
    fxOutcome    \* "running", "returned", "ValueError", "KeyError"

timeVars == <<fxEr, fxGiven, fxTimeDict, fxIdx, fxPc, fxOutcome>>

VARIABLES
    \* ---- sv_interpolation.interpolate_sv ----
    vIn,        \* the dataset the argument holds, or the file holds, at the call
    vKind,      \* "dataset": sv is a Dataset; "path": sv names a file
    vEdge,      \* with_edge_fill
    vHeap,      \* the dataset objects: "arg" (the one passed) and "fresh"
    vDataset,   \* the object the local name dataset refers to
    vCh,        \* position of the channel loop
    vProcessed, \* processed_channels
    vPc,        \* "load", "loop", "done"
    vResult     \* the object returned

interpVars == <<vIn, vKind, vEdge, vHeap, vDataset, vCh, vProcessed, vPc, vResult>>

VARIABLES
    \* ---- sv_interpolation.regrid_dataset ----
    gIn,        \* the dataset held by the argument at the call
    gDataset,   \* the argument object dataset, as it is now
    gNew,       \* new_dataset
    gGrid,      \* channel, max_depth_idx, bin_depths, new_bin_depths, new_range_sample
    gIdx,       \* position of the loop over dataset.data_vars
    gPc         \* "start", "coords", "vars", "done"

regridVars == <<gIn, gDataset, gNew, gGrid, gIdx, gPc>>

VARIABLES
    \* ---- raw_handler.split_files ----
    lFiles,     \* file_dicts
    lLists,     \* list_of_lists
    lTemp,      \* temp_list
    lPrev,      \* prev_elem
    lIdx,       \* position of the for loop
    lPc,        \* "start", "loop", "done"
    lOutcome    \* "running", "returned", "IndexError"

splitVars == <<lFiles, lLists, lTemp, lPrev, lIdx, lPc, lOutcome>>

midVars == <<presetVars, organismVars, freqVars, cliVars, integrityVars>>

laterVars == <<seabedVars, enrichVars, timeVars, interpVars, regridVars, splitVars>>

\* the variables apply_seabed_mask and the handler it calls leave alone
notSeabedVars == <<createVars, shoalVars, attachVars, midVars, enrichVars, timeVars, interpVars, regridVars, splitVars>>

notEnrichVars == <<coreVars, midVars, seabedVars, timeVars, interpVars, regridVars, splitVars>>

notTimeVars == <<coreVars, midVars, seabedVars, enrichVars, interpVars, regridVars, splitVars>>

notInterpVars == <<coreVars, midVars, seabedVars, enrichVars, timeVars, regridVars, splitVars>>

notRegridVars == <<coreVars, midVars, seabedVars, enrichVars, timeVars, interpVars, splitVars>>

notSplitVars == <<coreVars, midVars, seabedVars, enrichVars, timeVars, interpVars, regridVars>>

restVars == <<presetVars, organismVars, freqVars, cliVars, integrityVars, laterVars>>

vars == <<applyVars, createVars, shoalVars, attachVars, restVars>>

IdlePreset ==
    /\ pFunc = "idle"
    /\ pSource = << >>
    /\ pPc = "idle"
    /\ pIdx = 0
    /\ pMasks = << >>
    /\ pSv = << >>
    /\ pOutcome = "idle"

IdleOrganism ==
    /\ oCaller = << >>
    /\ oRequest = << >>
    /\ oDs = << >>
    /\ oIdx = 0
    /\ oApplied = << >>
    /\ oPc = "idle"
    /\ oOutcome = "idle"

IdleFreqDiff ==
    /\ fFunc = "idle"
    /\ fArgs = << >>
    /\ fPc = "idle"
    /\ fResult = << >>
    /\ fOutcome = "idle"

IdleCli ==
    /\ kIsFile = FALSE
    /\ kExportCsv = FALSE
    /\ kMasks = 0
    /\ kStage = 0
    /\ kRaised = << >>
    /\ kLogged = FALSE
    /\ kExit = << >>
    /\ kPc = "idle"

IdleIntegrity ==
    /\ iFile = << >>
    /\ iUseSwap = FALSE
    /\ iLocals = << >>
    /\ iResult = << >>
    /\ iPc = "idle"
    /\ iOutcome = "idle"

IdleSeabed ==
    /\ bConfig = << >>
    /\ bDs = << >>
    /\ bPc = "idle"
    /\ bResult = << >>

\* the functions other than g have not been called
IdleEnrich ==
    /\ eKwargs = {}
    /\ eRaises = << >>
    /\ ePc = "idle"
    /\ eCalls = << >>
    /\ eWarnings = << >>
    /\ eSv = {}
    /\ eOutcome = "idle"

IdleTime ==
    /\ fxEr = << >>
    /\ fxGiven = << >>
    /\ fxTimeDict = << >>
    /\ fxIdx = 0
    /\ fxPc = "idle"
    /\ fxOutcome = "idle"

IdleInterp ==
    /\ vIn = << >>
    /\ vKind = "idle"
    /\ vEdge = FALSE
    /\ vHeap = << >>
    /\ vDataset = << >>
    /\ vCh = 0
    /\ vProcessed = << >>
    /\ vPc = "idle"
    /\ vResult = << >>

IdleRegrid ==
    /\ gIn = << >>
    /\ gDataset = << >>
    /\ gNew = << >>
    /\ gGrid = << >>
    /\ gIdx = 0
    /\ gPc = "idle"

IdleSplit ==
    /\ lFiles = << >>
    /\ lLists = << >>
    /\ lTemp = << >>
    /\ lPrev = << >>
    /\ lIdx = 0
    /\ lPc = "idle"
    /\ lOutcome = "idle"

IdleRest(g) ==
    /\ g # "preset" => IdlePreset
    /\ g # "organism" => IdleOrganism
    /\ g # "freq" => IdleFreqDiff
    /\ g # "cli" => IdleCli
    /\ g # "integrity" => IdleIntegrity
    /\ g # "seabed" => IdleSeabed
    /\ g # "split" => IdleSplit
    /\ g # "regrid" => IdleRegrid
    /\ g # "interp" => IdleInterp
    /\ g # "time" => IdleTime
    /\ g # "enrich" => IdleEnrich

\* ---------------------------------------------------------------------------
\* Bounds of the model
\* ---------------------------------------------------------------------------
NumApplyCells == 2      \* samples of the Sv variable in the apply model
MaxRequest == 3         \* number of keys of processes_to_apply
NumChannels == 2        \* channels of the shoal dataset
NumPings == 2           \* ping_time length of the shoal dataset
NumSamples == 2         \* range_sample length of the shoal dataset
MaxTrue == 3            \* True cells of an irregular mask_shoal
MaxMasks == 2           \* length of the list given to attach_masks_to_dataset

\* ---------------------------------------------------------------------------
\* Generic helpers
\* ---------------------------------------------------------------------------
Range(s) == {s[i] : i \in DOMAIN s}

IsInjective(s) == \A i, j \in DOMAIN s : s[i] = s[j] => i = j

\* sequences without repetition (the keys of a dict) of length <= n over S
KeySeqs(S, n) == UNION {{s \in [1..k -> S] : IsInjective(s)} : k \in 0..n}

IndexOf(s, x) == CHOOSE i \in DOMAIN s : s[i] = x

\* optional values: None, or Some(v)
None == << >>
Some(v) == <<v>>

RECURSIVE SumOver(_, _)
\* sum of F[x] over a finite set
SumOver(S, F) ==
    IF S = {} THEN 0
    ELSE LET x == CHOOSE y \in S : TRUE IN F[x] + SumOver(S \ {x}, F)

Min(S) == CHOOSE x \in S : \A y \in S : x <= y
Max(S) == CHOOSE x \in S : \A y \in S : x >= y
Abs(n) == IF n < 0 THEN -n ELSE n

\* ---------------------------------------------------------------------------
\* Datasets of the apply model
\* ---------------------------------------------------------------------------
ApplyCells == 1..NumApplyCells

\* the missing-value sentinel written by apply_mask (numpy NaN)
NaN == -1

\* the fixed order of the cleaning processes
valid_processes ==
    <<"mask_impulse", "mask_attenuation", "mask_transient",
      "remove_background_noise", "mask_false_seabed", "mask_seabed">>

\* the processes that are boolean masks
noise_mask_names ==
    {"mask_impulse", "mask_attenuation", "mask_transient",
     "mask_false_seabed", "mask_seabed"}

\* keys a caller may put in processes_to_apply: the six valid ones and one
\* that the noise handler does not recognise (an organism mask)
NoiseRequestKeys == Range(valid_processes) \cup {"mask_krill"}

\* the boolean values of the mask a detection produced for each kind,
\* as the set of cells where the mask is True
DetectedMask(name) ==
    CASE name = "mask_impulse" -> {c \in ApplyCells : c # 1}
      [] name = "mask_attenuation" -> {c \in ApplyCells : c # 2}
      [] name = "mask_transient" -> ApplyCells
      [] name = "mask_false_seabed" -> {c \in ApplyCells : c > 1}
      [] name = "mask_seabed" -> {c \in ApplyCells : c < NumApplyCells}
      [] OTHER -> {}

\* a mask application that would start again from the unmasked samples
ep_apply_mask_unmasked(ds, mask) ==
    [ds EXCEPT !.Sv = [c \in ApplyCells |-> IF c \in mask THEN c ELSE NaN]]

\* echopype.mask.apply_mask(ds, mask, var_name="Sv"): a new dataset in which
\* the samples of Sv where the mask is False hold the missing sentinel
ep_apply_mask(ds, mask) ==
    [ds EXCEPT !.Sv = [c \in ApplyCells |-> IF c \in mask THEN ds.Sv[c] ELSE NaN]]

\* background_noise_remover.apply_remove_background_noise: a new dataset with
\* the variables Sv_corrected and Sv_noise computed from the current Sv
apply_remove_background_noise(ds) ==
    [ds EXCEPT !.Sv_corrected = <<"corrected", ds.Sv>>,
               !.Sv_noise = <<"noise", ds.Sv>>]

NoVar == <<"absent">>

\* datasets the caller may pass: Sv without missing samples and any subset
\* of the noise masks attached
ApplyInputs ==
    {[Sv |-> [c \in ApplyCells |-> c],
      masks |-> [n \in att |-> DetectedMask(n)],
      Sv_corrected |-> NoVar,
      Sv_noise |-> NoVar] : att \in SUBSET noise_mask_names}

\* ---------------------------------------------------------------------------
\* apply_selected_noise_masks_and_or_noise_removal
\* ---------------------------------------------------------------------------
IdleCreate ==
    /\ cConfig = << >>
    /\ cProfile = FALSE
    /\ cPc = "idle"
    /\ cIdx = 0
    /\ cFutureKind = << >>
    /\ cFutureState = << >>
    /\ cYielded = {}
    /\ cMasks = << >>
    /\ cProfiling = << >>
    /\ cOutcome = "idle"

IdleAttach ==
    /\ tStore = << >>
    /\ tInput = << >>
    /\ tMasks = << >>
    /\ tIdx = 0
    /\ tCur = 0
    /\ tPc = "idle"
    /\ tOutcome = "idle"

IdleShoal ==
    /\ sMask = << >>
    /\ sMissing = {}
    /\ sPc = "idle"
    /\ sShoals = << >>
    /\ sDicts = << >>
    /\ sResult = << >>
    /\ sOutcome = "idle"

InitApply ==
    /\ IdleCreate
    /\ IdleShoal
    /\ IdleAttach
    /\ IdleRest("")
    /\ aCaller \in ApplyInputs
    /\ aRequest \in KeySeqs(NoiseRequestKeys, MaxRequest)
    /\ aDs = aCaller
    /\ aPc = "validate"
    /\ aIdx = 1
    /\ aApplied = << >>
    /\ aOutcome = "running"

\* a handler that would accept every mask name the module knows, the
\* organism masks included
ValidateKeyAnyMask(key) ==
    key \in Range(valid_processes) \cup
            {"mask_krill", "mask_gas_bearing_organisms",
             "mask_fluid_like_organisms", "mask_shoal"}

\* one iteration of: for process in processes_to_apply: if process not in
\* valid_processes: raise ValueError
ValidateKey(key) == key \in Range(valid_processes)

ApplyValidateStep ==
    /\ aPc = "validate"
    /\ aIdx <= Len(aRequest)
    /\ IF ValidateKey(aRequest[aIdx])
       THEN /\ aIdx' = aIdx + 1
            /\ UNCHANGED <<aPc, aOutcome>>
       ELSE /\ aPc' = "done"
            /\ aOutcome' = "ValueError"
            /\ UNCHANGED aIdx
    /\ UNCHANGED <<aCaller, aRequest, aDs, aApplied>>
    /\ UNCHANGED <<createVars, shoalVars, attachVars, restVars>>

ApplyValidateDone ==
    /\ aPc = "validate"
    /\ aIdx > Len(aRequest)
    /\ aPc' = "apply"
    /\ aIdx' = 1
    /\ UNCHANGED <<aCaller, aRequest, aDs, aApplied, aOutcome>>
    /\ UNCHANGED <<createVars, shoalVars, attachVars, restVars>>

\* a handler that would visit the processes in the caller's order
ApplyOrderOfRequest == aRequest

\* the order in which the second loop visits the processes
ApplyOrder == valid_processes

\* a handler that would apply every process whether requested or not
ProcessRequestedAlways(process) == TRUE

\* if process in processes_to_apply
ProcessRequested(process) == process \in Range(aRequest)

\* one iteration of: for process in valid_processes
ApplyProcessStep ==
    /\ aPc = "apply"
    /\ aIdx <= Len(ApplyOrder)
    /\ LET process == ApplyOrder[aIdx] IN
       IF ProcessRequested(process)
       THEN IF process \in noise_mask_names
            THEN IF process \in DOMAIN aDs.masks
                 THEN /\ aDs' = ep_apply_mask(aDs, aDs.masks[process])
                      /\ aApplied' = Append(aApplied, process)
                 ELSE UNCHANGED <<aDs, aApplied>>   \* prints "is not a key in ds"
            ELSE /\ aDs' = apply_remove_background_noise(aDs)
                 /\ aApplied' = Append(aApplied, process)
       ELSE UNCHANGED <<aDs, aApplied>>
    /\ aIdx' = aIdx + 1
    /\ UNCHANGED <<aCaller, aRequest, aPc, aOutcome>>
    /\ UNCHANGED <<createVars, shoalVars, attachVars, restVars>>

ApplyReturn ==
    /\ aPc = "apply"
    /\ aIdx > Len(ApplyOrder)
    /\ aPc' = "done"
    /\ aOutcome' = "returned"
    /\ UNCHANGED <<aCaller, aRequest, aDs, aIdx, aApplied>>
    /\ UNCHANGED <<createVars, shoalVars, attachVars, restVars>>

NextApply ==
    \/ ApplyValidateStep
    \/ ApplyValidateDone
    \/ ApplyProcessStep
    \/ ApplyReturn

SpecApply == InitApply /\ [][NextApply]_vars

\* C1: the processes are applied in the fixed order impulse, attenuation,
\* transient, background noise removal, false seabed, seabed: of any two
\* applied processes the one earlier in valid_processes was applied first,
\* whatever the order of the keys of processes_to_apply.
C1_FixedOrder ==
    \A i, j \in DOMAIN aApplied :
        i < j => IndexOf(valid_processes, aApplied[i])
                   < IndexOf(valid_processes, aApplied[j])

\* a call that listed mask_seabed before mask_impulse and applied both
C1_Witness ==
    /\ aOutcome = "returned"
    /\ \E i, j \in DOMAIN aRequest :
          i < j /\ aRequest[i] = "mask_seabed" /\ aRequest[j] = "mask_impulse"
    /\ \E i, j \in DOMAIN aApplied :
          i < j /\ aApplied[i] = "mask_impulse" /\ aApplied[j] = "mask_seabed"

HasUnrecognizedKey == \E i \in DOMAIN aRequest : aRequest[i] \notin Range(valid_processes)

\* C2: a key outside the six recognized names makes the call raise
\* ValueError before anything is applied, at whatever position the key is,
\* and the dataset passed in is unchanged.
C2_FailFast ==
    HasUnrecognizedKey =>
        /\ aApplied = << >>
        /\ aDs = aCaller
        /\ aOutcome # "returned"
        /\ aPc = "done" => aOutcome = "ValueError"

\* the call raised on a request whose last key is the unrecognized one and
\* whose earlier keys name attached masks
C2_Witness ==
    /\ aOutcome = "ValueError"
    /\ Len(aRequest) = MaxRequest
    /\ aRequest[MaxRequest] \notin Range(valid_processes)
    /\ \A i \in 1..(MaxRequest - 1) : aRequest[i] \in DOMAIN aCaller.masks

IdleApply ==
    /\ aCaller = << >>
    /\ aRequest = << >>
    /\ aDs = << >>
    /\ aPc = "idle"
    /\ aIdx = 0
    /\ aApplied = << >>
    /\ aOutcome = "idle"

\* ---------------------------------------------------------------------------
\* create_masks: one creation call per enabled mask kind on a thread pool
\* ---------------------------------------------------------------------------
\* kind -> external detection function
MASK_CREATION_FUNCTIONS ==
    [transient |-> "get_transient_noise_mask_multichannel",
     attenuation |-> "get_attenuation_mask_multichannel",
     impulse |-> "get_impulse_noise_mask_multichannel",
     false_seabed |-> "get_seabed_mask_multichannel",
     seabed |-> "get_seabed_mask_multichannel"]

\* the keys of config in iteration order; "profile" holds a scalar, the
\* others a MaskConfig dict; seabed_echo has no creation function
ConfigKeys ==
    <<"transient", "attenuation", "impulse", "false_seabed", "seabed",
      "seabed_echo", "profile">>

ScalarKeys == {"profile"}

\* method and parameters of each MaskConfig
ConfigMethod(key) ==
    CASE key = "transient" -> "fielding"
      [] key = "attenuation" -> "ryan"
      [] key = "impulse" -> "ryan"
      [] key = "false_seabed" -> "blackwell_mod"
      [] key = "seabed" -> "ariza"
      [] OTHER -> "blackwell"

ConfigParameters(key) ==
    CASE key = "transient" -> <<<<"n", 5>>, <<"jumps", 5>>>>
      [] key = "attenuation" -> <<<<"r0", 180>>, <<"thr", -6>>>>
      [] key = "impulse" -> <<<<"thr", 10>>, <<"m", 5>>>>
      [] key = "false_seabed" -> <<<<"r0", 10>>, <<"tSv", -75>>>>
      [] key = "seabed" -> <<<<"r0", 10>>, <<"thr", -40>>>>
      [] OTHER -> <<<<"r0", 10>>>>

\* is_scalar(value)
is_scalar(key) == key \in ScalarKeys

\* dict_to_formatted_list(d): one "key=value" string per item, in order
dict_to_formatted_list(d) ==
    [i \in DOMAIN d |-> d[i][1] \o "=" \o ToString(d[i][2])]

\* add_metadata_to_mask(mask, metadata)
add_metadata_to_mask(mask, metadata) == [mask EXCEPT !.attrs = metadata]

\* create_and_add_metadata(create_mask_func, source_Sv, mask_type, config_item)
\* for a creation call that returns
create_and_add_metadata(create_mask_func, mask_type, method, parameters) ==
    add_metadata_to_mask(
        [data |-> [func |-> create_mask_func, method |-> method,
                   parameters |-> parameters],
         attrs |-> << >>],
        [mask_type |-> mask_type,
         method |-> method,
         parameters |-> dict_to_formatted_list(parameters)])

\* ThreadPoolExecutor(): the default number of worker threads is at least 5
max_workers == 5

InitCreate ==
    /\ IdleApply
    /\ IdleShoal
    /\ IdleAttach
    /\ IdleRest("")
    /\ cConfig \in [Range(ConfigKeys) \ ScalarKeys -> BOOLEAN]
    /\ cProfile \in BOOLEAN
    /\ cPc = "submit"
    /\ cIdx = 1
    /\ cFutureKind = << >>
    /\ cFutureState = << >>
    /\ cYielded = {}
    /\ cMasks = << >>
    /\ cProfiling = [k \in {} |-> FALSE]
    /\ cOutcome = "running"

\* the condition under which the submit loop submits a creation call
ShouldSubmit(mask_type) ==
    /\ cConfig[mask_type]
    /\ mask_type \in DOMAIN MASK_CREATION_FUNCTIONS

\* one iteration of: for mask_type, mask_config in config.items()
CreateSubmitStep ==
    /\ cPc = "submit"
    /\ cIdx <= Len(ConfigKeys)
    /\ LET mask_type == ConfigKeys[cIdx] IN
       IF ~is_scalar(mask_type) /\ ShouldSubmit(mask_type)
       THEN /\ cProfiling' = [k \in DOMAIN cProfiling \cup {mask_type} |-> FALSE]
            /\ cFutureKind' = Append(cFutureKind, mask_type)
            /\ cFutureState' = Append(cFutureState, "queued")
       ELSE UNCHANGED <<cProfiling, cFutureKind, cFutureState>>
    /\ cIdx' = cIdx + 1
    /\ UNCHANGED <<cConfig, cProfile, cPc, cYielded, cMasks, cOutcome>>
    /\ UNCHANGED <<applyVars, shoalVars, attachVars, restVars>>

CreateSubmitDone ==
    /\ cPc = "submit"
    /\ cIdx > Len(ConfigKeys)
    /\ cPc' = "collect"
    /\ UNCHANGED <<cConfig, cProfile, cIdx, cFutureKind, cFutureState,
                   cYielded, cMasks, cProfiling, cOutcome>>
    /\ UNCHANGED <<applyVars, shoalVars, attachVars, restVars>>

\* a pool whose calls run one after the other
WorkerFreeSerial == \A g \in DOMAIN cFutureState : cFutureState[g] # "running"

\* the pool has a thread that runs no call
WorkerFree ==
    Cardinality({g \in DOMAIN cFutureState : cFutureState[g] = "running"})
       < max_workers

\* a worker thread of the pool takes a queued call
WorkerStart(f) ==
    /\ cFutureState[f] = "queued"
    /\ WorkerFree
    /\ cFutureState' = [cFutureState EXCEPT ![f] = "running"]
    /\ UNCHANGED <<cConfig, cProfile, cPc, cIdx, cFutureKind, cYielded,
                   cMasks, cProfiling, cOutcome>>
    /\ UNCHANGED <<applyVars, shoalVars, attachVars, restVars>>

\* the creation call returns a mask, or raises
WorkerFinish(f, ok) ==
    /\ cFutureState[f] = "running"
    /\ cFutureState' = [cFutureState EXCEPT ![f] = IF ok THEN "ok" ELSE "exc"]
    /\ UNCHANGED <<cConfig, cProfile, cPc, cIdx, cFutureKind, cYielded,
                   cMasks, cProfiling, cOutcome>>
    /\ UNCHANGED <<applyVars, shoalVars, attachVars, restVars>>

\* future.result() of a future whose call returned
FutureResult(f) ==
    LET kind == cFutureKind[f] IN
    create_and_add_metadata(MASK_CREATION_FUNCTIONS[kind], kind,
                            ConfigMethod(kind), ConfigParameters(kind))

\* a collection loop that reuses the variable mask_type of the submit loop
CollectedKindStale(f) == cFutureKind[Len(cFutureKind)]

\* mask_type = future_to_mask_type[future]
CollectedKind(f) == cFutureKind[f]

\* a collection loop without the except clause
CollectOutcomeUncaught(f) == IF cFutureState[f] = "ok" THEN "append" ELSE "propagate"

\* the try/except around future.result(): the result is appended, or the
\* exception of the creation call is caught and printed
CollectOutcome(f) == IF cFutureState[f] = "ok" THEN "append" ELSE "caught"

\* one iteration of: for future in as_completed(future_to_mask_type)
CreateCollectStep(f) ==
    /\ cPc = "collect"
    /\ f \notin cYielded
    /\ cFutureState[f] \in {"ok", "exc"}
    /\ cYielded' = cYielded \cup {f}
    /\ CASE CollectOutcome(f) = "append" ->
              /\ cMasks' = Append(cMasks, <<CollectedKind(f), FutureResult(f)>>)
              /\ cProfiling' = IF cProfile
                                THEN [cProfiling EXCEPT ![CollectedKind(f)] = TRUE]
                                ELSE cProfiling
              /\ UNCHANGED <<cPc, cOutcome>>
         [] CollectOutcome(f) = "caught" ->
              UNCHANGED <<cMasks, cProfiling, cPc, cOutcome>>
         [] OTHER ->   \* an exception leaving the loop ends create_masks
              /\ cPc' = "done"
              /\ cOutcome' = "raised"
              /\ UNCHANGED <<cMasks, cProfiling>>
    /\ UNCHANGED <<cConfig, cProfile, cIdx, cFutureKind, cFutureState>>
    /\ UNCHANGED <<applyVars, shoalVars, attachVars, restVars>>

\* a collection loop that is left at the first completed future
ReturnReadyFirst == cYielded # {}

\* as_completed has yielded every future of future_to_mask_type
ReturnReady == cYielded = DOMAIN cFutureKind

\* as_completed is exhausted, the executor shuts down, create_masks returns
CreateReturn ==
    /\ cPc = "collect"
    /\ ReturnReady
    /\ cPc' = "done"
    /\ cOutcome' = "returned"
    /\ UNCHANGED <<cConfig, cProfile, cIdx, cFutureKind, cFutureState,
                   cYielded, cMasks, cProfiling>>
    /\ UNCHANGED <<applyVars, shoalVars, attachVars, restVars>>

NextCreate ==
    \/ CreateSubmitStep
    \/ CreateSubmitDone
    \/ \E f \in DOMAIN cFutureState : WorkerStart(f)
    \/ \E f \in DOMAIN cFutureState, ok \in BOOLEAN : WorkerFinish(f, ok)
    \/ \E f \in DOMAIN cFutureState : CreateCollectStep(f)
    \/ CreateReturn

SpecCreate == InitCreate /\ [][NextCreate]_vars

KindsOf(masks) == {masks[i][1] : i \in DOMAIN masks}

FuturesIn(state) == {f \in DOMAIN cFutureState : cFutureState[f] = state}

\* C3: the exception of one kind's creation call is caught: create_masks
\* never raises, and when it has returned the kinds whose call raised are
\* absent from the tuple and every kind whose call succeeded is present.
C3_PartialFailure ==
    /\ cOutcome # "raised"
    /\ cPc = "done" =>
          /\ cOutcome = "returned"
          /\ \A f \in FuturesIn("exc") : cFutureKind[f] \notin KindsOf(cMasks)
          /\ \A f \in FuturesIn("ok") : cFutureKind[f] \in KindsOf(cMasks)

\* create_masks returned after one creation call raised and two succeeded
C3_Witness ==
    /\ cPc = "done"
    /\ Cardinality(FuturesIn("exc")) = 1
    /\ Cardinality(FuturesIn("ok")) = 2

\* the mask that the creation call of a kind produces
IsOwnMask(kind, mask) ==
    /\ mask.attrs.mask_type = kind
    /\ mask.data.func = MASK_CREATION_FUNCTIONS[kind]
    /\ mask.data.method = ConfigMethod(kind)
    /\ mask.data.parameters = ConfigParameters(kind)

\* C4: for every completion order the tuple holds at most one entry per
\* kind, each entry pairs a kind with the mask of that kind's own creation
\* call, and once create_masks returns the kinds present are exactly the
\* enabled kinds of MASK_CREATION_FUNCTIONS whose creation succeeded.
C4_KeyedByKind ==
    /\ \A i, j \in DOMAIN cMasks : cMasks[i][1] = cMasks[j][1] => i = j
    /\ \A i \in DOMAIN cMasks : IsOwnMask(cMasks[i][1], cMasks[i][2])
    /\ KindsOf(cMasks) \subseteq
          {k \in DOMAIN MASK_CREATION_FUNCTIONS : cConfig[k]}
    /\ cPc = "done" =>
          KindsOf(cMasks) =
            {k \in DOMAIN MASK_CREATION_FUNCTIONS :
                /\ cConfig[k]
                /\ \E f \in FuturesIn("ok") : cFutureKind[f] = k}

\* the calls completed in another order than they were submitted: seabed,
\* submitted last, is the first entry and transient the second
C4_Witness ==
    /\ cPc = "done"
    /\ Len(cMasks) >= 2
    /\ cMasks[1][1] = "seabed"
    /\ cMasks[2][1] = "transient"
    /\ cConfig["seabed_echo"]

\* ---------------------------------------------------------------------------
\* The shoal dataset: mask_shoal and Sv over channel x ping_time x range_sample
\* ---------------------------------------------------------------------------
Channels == 0..(NumChannels - 1)
Pings == 0..(NumPings - 1)
Samples == 0..(NumSamples - 1)
Cells == Channels \X Pings \X Samples

\* coordinates and per-ping / per-channel variables of the dataset
PingTime(p) == 1000 + 10 * p
RangeSample(r) == r
Latitude(p) == 4500 + 3 * p
Longitude(p) == 0 - 1200 - 7 * p
FrequencyNominal(c) == IF c = 0 THEN 38000 ELSE 60000 * (c + 1)
SvValue == [x \in Cells |-> 0 - 60 - x[2] - 2 * x[3] - 5 * x[1]]

\* Sv.source_filenames, as the parts of the path
SourceFilename == [parent |-> "test_data/", stem |-> "D20170625-T124834", suffix |-> ".raw"]

\* the whole file name, as the variant of the function without Path uses it
PathName(path) == path.parent \o path.stem \o path.suffix

\* pathlib.Path(name).stem
PathStem(path) == path.stem

MaskOf(S) == [x \in Cells |-> x \in S]
TrueCells(mask) == {x \in DOMAIN mask : mask[x]}

RECURSIVE SetsUpTo(_, _)
\* the subsets of S with at most n elements
SetsUpTo(S, n) ==
    IF n = 0 THEN {{}}
    ELSE LET prev == SetsUpTo(S, n - 1) IN
         prev \cup {T \cup {x} : T \in prev, x \in S}

\* a rectangular block of consecutive pings and range samples in one channel
Block(c, p0, p1, r0, r1) ==
    {x \in Cells : x[1] = c /\ p0 <= x[2] /\ x[2] <= p1 /\ r0 <= x[3] /\ x[3] <= r1}

BlockMasks ==
    {Block(c, p0, p1, r0, r1) :
        c \in Channels, p0 \in Pings, p1 \in Pings, r0 \in Samples, r1 \in Samples}

\* the masks a shoal detection (and the editing of a mask by slices) may leave
\* in the dataset: irregular masks of few cells, blocks, and the full volume
ShoalMaskInputs == SetsUpTo(Cells, MaxTrue) \cup BlockMasks \cup {Cells}

\* ---------------------------------------------------------------------------
\* utils.tfc
\* ---------------------------------------------------------------------------
tfc(mask) ==
    LET count_true == Cardinality(TrueCells(mask))
        count_false == Cardinality(DOMAIN mask) - count_true
    IN <<count_true, count_false>>

\* ---------------------------------------------------------------------------
\* scipy.ndimage.label with the default structuring element and
\* split_shoal_mask
\* ---------------------------------------------------------------------------
\* label with structure=ones: cells touching by a corner are neighbours too
StructureFull(x, y) ==
    /\ x # y
    /\ Abs(x[1] - y[1]) <= 1 /\ Abs(x[2] - y[2]) <= 1 /\ Abs(x[3] - y[3]) <= 1

\* the default structuring element: neighbours differ by one step on one axis
Structure(x, y) ==
    Abs(x[1] - y[1]) + Abs(x[2] - y[2]) + Abs(x[3] - y[3]) = 1

\* position of a cell in the row-major scan of the array
Raster(x) == (x[1] * NumPings + x[2]) * NumSamples + x[3]

RECURSIVE Grow(_, _)
\* the cells of S reachable from front through neighbours
Grow(front, S) ==
    LET next == front \cup {y \in S : \E x \in front : Structure(x, y)} IN
    IF next = front THEN front ELSE Grow(next, S)

RECURSIVE LabelComponents(_)
\* the connected components in the order of their first cell in the scan
LabelComponents(rest) ==
    IF rest = {} THEN << >>
    ELSE LET first == CHOOSE x \in rest : \A y \in rest : Raster(x) <= Raster(y)
             comp == Grow({first}, rest)
         IN <<comp>> \o LabelComponents(rest \ comp)

\* nd_img.label(all_shoals): (labelled array, number of labels)
nd_label(mask) ==
    LET comps == LabelComponents(TrueCells(mask)) IN
    [la |-> [x \in DOMAIN mask |->
                IF mask[x] THEN CHOOSE i \in DOMAIN comps : x \in comps[i] ELSE 0],
     ls |-> Len(comps)]

split_shoal_mask(mask) ==
    LET labelled == nd_label(mask)
        la == labelled.la
        ls == labelled.ls
    IN [i \in 1..ls |-> [data |-> [x \in DOMAIN mask |-> la[x] = i], label |-> i]]

\* ---------------------------------------------------------------------------
\* process_single_shoal_channel
\* ---------------------------------------------------------------------------
\* mc = mask.sel(channel=channel): the cells of the shoal in the channel
ChannelCells(shoal, channel) == {x \in TrueCells(shoal.data) : x[1] = channel}

\* md["Sv"] = ~Sv_masked["Sv"].isnull(): in the mask and not missing
ValidCells(shoal, channel, missing) == ChannelCells(shoal, channel) \ missing

\* the pings of md, not restricted to the shoal
SubsetPingsAll(shoal, channel, missing) == Pings

\* the pings and range samples of subset_md
SubsetPings(shoal, channel, missing) == {x[2] : x \in ValidCells(shoal, channel, missing)}
SubsetSamples(shoal, channel, missing) == {x[3] : x \in ValidCells(shoal, channel, missing)}

\* a function without the early return on an empty channel
ZeroAreaIsNoneNever(area) == FALSE

\* if area == 0: return None
ZeroAreaIsNone(area) == area = 0

\* past the early return, the reductions of an empty subset_md raise
ChannelRaises(shoal, channel, missing) ==
    /\ ~ZeroAreaIsNone(Cardinality(ChannelCells(shoal, channel)))
    /\ ValidCells(shoal, channel, missing) = {}

\* the scale of the ping_time offsets of the bounding box
BBOX_PING_SCALE == 2

\* great-circle distance, an external function of the two end points
haversine(a, b) == <<"haversine_m", a, b>>

process_single_shoal_channel(shoal, channel, missing) ==
    LET valid == ValidCells(shoal, channel, missing)
        area == Cardinality(ChannelCells(shoal, channel))
        pings == SubsetPings(shoal, channel, missing)
        samples == SubsetSamples(shoal, channel, missing)
        start_time == Min({PingTime(p) : p \in pings})
        end_time == Max({PingTime(p) : p \in pings})
        start_range == Min({RangeSample(r) : r \in samples})
        end_range == Max({RangeSample(r) : r \in samples})
        bbox_0 == CHOOSE r \in Samples : RangeSample(r) = start_range
        bbox_2 == CHOOSE r \in Samples : RangeSample(r) = end_range
        bbox_1 == (CHOOSE p \in Pings : PingTime(p) = start_time) * BBOX_PING_SCALE
        bbox_3 == (CHOOSE p \in Pings : PingTime(p) = end_time) * BBOX_PING_SCALE
        first_ping == Min(pings)
        last_ping == Max(pings)
        start_lat == Latitude(first_ping)
        end_lat == Latitude(last_ping)
        start_lon == Longitude(first_ping)
        end_lon == Longitude(last_ping)
    IN IF ZeroAreaIsNone(area) THEN None
       ELSE Some(
         [label |-> Some(shoal.label),
          frequency |-> Some(FrequencyNominal(channel)),
          filename |-> Some(PathStem(SourceFilename)),
          area |-> Some(area),
          bbox_0 |-> Some(bbox_0),
          bbox_1 |-> Some(bbox_1),
          bbox_2 |-> Some(bbox_2),
          bbox_3 |-> Some(bbox_3),
          centroid_0 |-> Some(<<bbox_0 + bbox_2, 2>>),
          centroid_1 |-> Some(<<bbox_1 + bbox_3, 2>>),
          Sv_mean |-> Some(<<SumOver(valid, SvValue), Cardinality(valid)>>),
          npings |-> Some(Cardinality(pings)),
          nsamples |-> Some(Cardinality(samples)),
          corrected_length |-> Some(haversine(<<start_lat, start_lon>>, <<end_lat, end_lon>>)),
          mean_range |-> Some(<<SumOver(samples, [r \in Samples |-> RangeSample(r)]),
                                Cardinality(samples)>>),
          start_range |-> Some(start_range),
          end_range |-> Some(end_range),
          start_time |-> Some(start_time),
          end_time |-> Some(end_time),
          start_lat |-> Some(start_lat),
          end_lat |-> Some(end_lat),
          start_lon |-> Some(start_lon),
          end_lon |-> Some(end_lon),
          nasc |-> Some(<<"NASC", channel>>)])

\* ---------------------------------------------------------------------------
\* process_single_shoal
\* ---------------------------------------------------------------------------
RECURSIVE FilterNotNone(_)
\* [r for r in results if r is not None]
FilterNotNone(results) ==
    IF results = << >> THEN << >>
    ELSE IF Head(results) = None THEN FilterNotNone(Tail(results))
         ELSE <<Head(results)>> \o FilterNotNone(Tail(results))

SingleShoalRaises(shoal, missing) ==
    \E c \in Channels : ChannelRaises(shoal, c, missing)

\* None when no channel gives a record, else Some(list of records)
process_single_shoal(shoal, missing) ==
    LET results == FilterNotNone(
            [i \in 1..NumChannels |-> process_single_shoal_channel(shoal, i - 1, missing)])
    IN IF results = << >> THEN None ELSE Some(results)

\* ---------------------------------------------------------------------------
\* process_shoals
\* ---------------------------------------------------------------------------
\* the record returned when the mask is taken to hold no shoal
PlaceholderRecord ==
    [label |-> None, frequency |-> None,
     filename |-> Some(PathStem(SourceFilename)),
     area |-> None, bbox_0 |-> None, bbox_1 |-> None, bbox_2 |-> None,
     bbox_3 |-> None, centroid_0 |-> None, centroid_1 |-> None,
     Sv_mean |-> None, npings |-> None, nsamples |-> None,
     corrected_length |-> None, mean_range |-> None, start_range |-> None,
     end_range |-> None, start_time |-> None, end_time |-> None,
     start_lat |-> None, end_lat |-> None, start_lon |-> None,
     end_lon |-> None, nasc |-> None]

\* if 0 in tfc(Sv["mask_shoal"])
ReturnsPlaceholder(mask) == \E i \in 1..2 : tfc(mask)[i] = 0

RECURSIVE Flatten(_)
\* [item for sublist in dicts for item in sublist], sublists being Some(list)
Flatten(dicts) ==
    IF dicts = << >> THEN << >>
    ELSE Head(dicts)[1] \o Flatten(Tail(dicts))

InitShoal ==
    /\ IdleApply
    /\ IdleCreate
    /\ IdleAttach
    /\ IdleRest("")
    /\ \E S \in ShoalMaskInputs :
          /\ sMask = MaskOf(S)
          /\ sMissing \in {{}} \cup {{x} : x \in S}
    /\ sPc = "ready"
    /\ sShoals = << >>
    /\ sDicts = << >>
    /\ sResult = << >>
    /\ sOutcome = "running"

\* a direct call of split_shoal_mask(Sv)
SplitShoalMaskCall ==
    /\ sPc = "ready"
    /\ sShoals' = split_shoal_mask(sMask)
    /\ sPc' = "split_only"
    /\ sOutcome' = "returned"
    /\ UNCHANGED <<sMask, sMissing, sDicts, sResult>>
    /\ UNCHANGED <<applyVars, createVars, attachVars, restVars>>

\* process_shoals up to masks = split_shoal_mask(Sv)
ShoalsStart ==
    /\ sPc = "ready"
    /\ IF ReturnsPlaceholder(sMask)
       THEN /\ sResult' = <<Some(PlaceholderRecord)>>
            /\ sPc' = "done"
            /\ sOutcome' = "returned"
            /\ UNCHANGED sShoals
       ELSE /\ sShoals' = split_shoal_mask(sMask)
            /\ sPc' = "split"
            /\ UNCHANGED <<sResult, sOutcome>>
    /\ UNCHANGED <<sMask, sMissing, sDicts>>
    /\ UNCHANGED <<applyVars, createVars, attachVars, restVars>>

\* dicts = [process_single_shoal(Sv, mask) for mask in masks]
ShoalsProcessEach ==
    /\ sPc = "split"
    /\ IF \E i \in DOMAIN sShoals : SingleShoalRaises(sShoals[i], sMissing)
       THEN /\ sPc' = "done"
            /\ sOutcome' = "raised"
            /\ UNCHANGED sDicts
       ELSE /\ sDicts' = [i \in DOMAIN sShoals |-> process_single_shoal(sShoals[i], sMissing)]
            /\ sPc' = "processed"
            /\ UNCHANGED sOutcome
    /\ UNCHANGED <<sMask, sMissing, sShoals, sResult>>
    /\ UNCHANGED <<applyVars, createVars, attachVars, restVars>>

\* the flattening of dicts, the removal of None, the return
ShoalsFlatten ==
    /\ sPc = "processed"
    /\ sPc' = "done"
    /\ IF \E i \in DOMAIN sDicts : sDicts[i] = None
       THEN /\ sOutcome' = "raised"     \* iterating None is a TypeError
            /\ UNCHANGED sResult
       ELSE /\ sResult' = FilterNotNone(Flatten(sDicts))
            /\ sOutcome' = "returned"
    /\ UNCHANGED <<sMask, sMissing, sShoals, sDicts>>
    /\ UNCHANGED <<applyVars, createVars, attachVars, restVars>>

NextShoal ==
    \/ SplitShoalMaskCall
    \/ ShoalsStart
    \/ ShoalsProcessEach
    \/ ShoalsFlatten

SpecShoal == InitShoal /\ [][NextShoal]_vars

\* ---------------------------------------------------------------------------
\* attach_mask_to_dataset and attach_masks_to_dataset
\* ---------------------------------------------------------------------------
\* the masks a caller may attach: three kinds, each from two detection methods
MaskPool ==
    {create_and_add_metadata(MASK_CREATION_FUNCTIONS[k], k, m, ConfigParameters(k)) :
        k \in {"seabed", "impulse", "transient"}, m \in {"ariza", "blackwell"}}

\* the variable a mask becomes in a dataset
AsVariable(mask) == [data |-> mask.data, attrs |-> mask.attrs]

\* a mask attached by an earlier call
EarlierMask(k) ==
    AsVariable(create_and_add_metadata(MASK_CREATION_FUNCTIONS[k], k, "experimental",
                                       ConfigParameters(k)))

\* the datasets a caller may pass: Sv, with or without masks already attached
AttachInputs ==
    {[n \in {"Sv"} \cup {"mask_" \o k : k \in att} |->
         IF n = "Sv" THEN [data |-> "Sv values", attrs |-> [long_name |-> "Sv"]]
         ELSE EarlierMask(CHOOSE k \in att : n = "mask_" \o k)] :
       att \in SUBSET {"seabed", "impulse"}}

\* xarray.Dataset.assign(name=variable): a new dataset with the variable
\* added, or replaced when the name is already there
xr_assign(ds, name, variable) ==
    [n \in DOMAIN ds \cup {name} |-> IF n = name THEN variable ELSE ds[n]]

\* xarray.Dataset.rename raises ValueError ("the new name conflicts") when
\* another variable of the dataset already has the new name
xr_rename_conflicts(ds, old, new) == new # old /\ new \in DOMAIN ds

\* xarray.Dataset.rename({old: new}) when it does not raise
xr_rename(ds, old, new) ==
    [n \in (DOMAIN ds \ {old}) \cup {new} |-> IF n = new THEN ds[old] ELSE ds[n]]

mask_name_of(mask) == "mask_" \o mask.attrs.mask_type

AttachRaises(Sv, mask) ==
    xr_rename_conflicts(xr_assign(Sv, "mask", AsVariable(mask)), "mask", mask_name_of(mask))

\* attach_mask_to_dataset(Sv, mask) when it returns
attach_mask_to_dataset(Sv, mask) ==
    LET mask_name == mask_name_of(mask)
        Sv_mask == xr_assign(Sv, "mask", AsVariable(mask))
        Sv_mask2 == [Sv_mask EXCEPT !["mask"].attrs = mask.attrs]
    IN xr_rename(Sv_mask2, "mask", mask_name)

\* an attach that would write the mask into the dataset it was given
AttachTargetInPlace(cur) == cur

\* the object that holds the result: assign and rename return new datasets
AttachTarget(cur) == cur + 1

InitAttach ==
    /\ IdleApply
    /\ IdleCreate
    /\ IdleShoal
    /\ IdleRest("")
    /\ tInput \in AttachInputs
    /\ tMasks \in UNION {[1..k -> MaskPool] : k \in 0..MaxMasks}
    /\ tStore = [o \in 1..(Len(tMasks) + 1) |-> IF o = 1 THEN tInput ELSE << >>]
    /\ tIdx = 1
    /\ tCur = 1
    /\ tPc = "loop"
    /\ tOutcome = "running"

\* one iteration of: for mask in masks: Sv = attach_mask_to_dataset(Sv, mask)
AttachStep ==
    /\ tPc = "loop"
    /\ tIdx <= Len(tMasks)
    /\ LET mask == tMasks[tIdx] IN
       IF AttachRaises(tStore[tCur], mask)
       THEN /\ tPc' = "done"
            /\ tOutcome' = "ValueError"
            /\ UNCHANGED <<tStore, tCur, tIdx>>
       ELSE /\ tStore' = [tStore EXCEPT ![AttachTarget(tCur)] =
                              attach_mask_to_dataset(tStore[tCur], mask)]
            /\ tCur' = AttachTarget(tCur)
            /\ tIdx' = tIdx + 1
            /\ UNCHANGED <<tPc, tOutcome>>
    /\ UNCHANGED <<tInput, tMasks>>
    /\ UNCHANGED <<applyVars, createVars, shoalVars, restVars>>

\* return Sv
AttachReturn ==
    /\ tPc = "loop"
    /\ tIdx > Len(tMasks)
    /\ tPc' = "done"
    /\ tOutcome' = "returned"
    /\ UNCHANGED <<tStore, tInput, tMasks, tIdx, tCur>>
    /\ UNCHANGED <<applyVars, createVars, shoalVars, restVars>>

NextAttach ==
    \/ AttachStep
    \/ AttachReturn

SpecAttach == InitAttach /\ [][NextAttach]_vars

\* two cells are neighbours when they differ by one step along one axis
Touching(x, y) ==
    \E k \in 1..3 :
        /\ Abs(x[k] - y[k]) = 1
        /\ \A j \in (1..3) \ {k} : x[j] = y[j]

RECURSIVE Reach(_, _)
Reach(front, S) ==
    LET next == front \cup {y \in S : \E x \in front : Touching(x, y)} IN
    IF next = front THEN front ELSE Reach(next, S)

\* a non-empty set of cells any two of which are joined by a path in the set
IsConnectedRegion(S) == S # {} /\ \A x \in S : Reach({x}, S) = S

SplitDone == sPc \in {"split_only", "split", "processed"}

\* C5: split_shoal_mask returns one sub-mask per connected True-region:
\* each sub-mask has the full shape of mask_shoal, the sub-masks are
\* pairwise disjoint with union mask_shoal, each is one connected region
\* not touching another one, and the labels are the integers 1..n.
C5_SplitShoalMask ==
    SplitDone =>
        /\ \A i \in DOMAIN sShoals :
              /\ DOMAIN sShoals[i].data = DOMAIN sMask
              /\ sShoals[i].label = i
              /\ IsConnectedRegion(TrueCells(sShoals[i].data))
        /\ \A i, j \in DOMAIN sShoals :
              i # j =>
                /\ TrueCells(sShoals[i].data) \cap TrueCells(sShoals[j].data) = {}
                /\ \A x \in TrueCells(sShoals[i].data), y \in TrueCells(sShoals[j].data) :
                      ~Touching(x, y)
        /\ UNION {TrueCells(sShoals[i].data) : i \in DOMAIN sShoals} = TrueCells(sMask)

\* two rectangles separated by False cells came out as exactly two sub-masks,
\* each equal to one rectangle
C5_Witness ==
    /\ sPc = "split_only"
    /\ Len(sShoals) = 2
    /\ TrueCells(sShoals[1].data) = Block(0, 0, 0, 0, 1)
    /\ TrueCells(sShoals[2].data) = Block(1, 1, 1, 0, 0)

\* the (shoal, channel) pairs in which the sub-mask has True cells
OccupiedPairs ==
    {pr \in (DOMAIN sShoals) \X Channels : ChannelCells(sShoals[pr[1]], pr[2]) # {}}

RecordIsOf(rec, pr) ==
    /\ rec.label = Some(pr[1])
    /\ rec.frequency = Some(FrequencyNominal(pr[2]))
    /\ rec.area = Some(Cardinality(ChannelCells(sShoals[pr[1]], pr[2])))

\* C6: no record is emitted for a (shoal, channel) pair whose sub-mask has
\* no True cell in the channel and the returned list holds no None: the
\* records are exactly those of the pairs with True cells, one each.
C6_NoZeroAreaRecord ==
    /\ sPc = "processed" =>
          \A i \in DOMAIN sDicts :
              /\ sDicts[i] # None
              /\ \A k \in DOMAIN sDicts[i][1] :
                    /\ sDicts[i][1][k] # None
                    /\ \E c \in Channels :
                          /\ ChannelCells(sShoals[i], c) # {}
                          /\ RecordIsOf(sDicts[i][1][k][1], <<i, c>>)
              /\ Len(sDicts[i][1]) =
                    Cardinality({c \in Channels : ChannelCells(sShoals[i], c) # {}})
    /\ (sPc = "done" /\ sMissing = {}) => sOutcome = "returned"
    /\ (sPc = "done" /\ sOutcome = "returned") =>
          /\ \A k \in DOMAIN sResult : sResult[k] # None
          /\ ~ReturnsPlaceholder(sMask) =>
                /\ Len(sResult) = Cardinality(OccupiedPairs)
                /\ \A pr \in OccupiedPairs :
                      \E k \in DOMAIN sResult : RecordIsOf(sResult[k][1], pr)

\* a shoal with True cells in channel 0 and none in channel 1 gave exactly
\* one record, that of channel 0
C6_Witness ==
    /\ sPc = "done"
    /\ sOutcome = "returned"
    /\ Len(sShoals) = 1
    /\ ChannelCells(sShoals[1], 0) # {}
    /\ ChannelCells(sShoals[1], 1) = {}
    /\ Len(sResult) = 1
    /\ sResult[1][1].frequency = Some(FrequencyNominal(0))

\* C7: with no True cell in mask_shoal the labelling is skipped and exactly
\* one record is returned, whose filename is the stem of the source file
\* name and whose other fields are all None.
C7_EmptyMaskPlaceholder ==
    (sPc = "done" /\ TrueCells(sMask) = {}) =>
        /\ sOutcome = "returned"
        /\ sShoals = << >>
        /\ sDicts = << >>
        /\ Len(sResult) = 1
        /\ sResult[1] # None
        /\ sResult[1][1].filename = Some(SourceFilename.stem)
        /\ \A f \in (DOMAIN sResult[1][1]) \ {"filename"} : sResult[1][1][f] = None

\* process_shoals returned on a dataset whose mask_shoal is all False
C7_Witness ==
    /\ sPc = "done"
    /\ TrueCells(sMask) = {}
    /\ Len(sResult) = 1

C9_AttachFrame ==
    /\ tPc # "idle" => tStore[1] = tInput
    /\ \A k \in 1..(tIdx - 1) :
          (tPc # "idle" /\ k + 1 \in DOMAIN tStore) =>
            LET before == tStore[k]
                after == tStore[k + 1]
                mask == tMasks[k]
                name == "mask_" \o mask.attrs.mask_type
            IN /\ name \in DOMAIN after
               /\ after[name].attrs = mask.attrs
               /\ after[name].attrs.mask_type = mask.attrs.mask_type
               /\ after[name].attrs.method = mask.attrs.method
               /\ after[name].attrs.parameters = mask.attrs.parameters
               /\ after[name].data = mask.data
               /\ \A n \in DOMAIN before : n \in DOMAIN after /\ after[n] = before[n]
               /\ DOMAIN after = DOMAIN before \cup {name}
               /\ name \notin DOMAIN before

\* two masks were attached to a dataset that already held another mask
C9_Witness ==
    /\ tPc = "done"
    /\ tOutcome = "returned"
    /\ Len(tMasks) = 2
    /\ DOMAIN tInput = {"Sv", "mask_impulse"}
    /\ DOMAIN tStore[tCur] = {"Sv", "mask_impulse", "mask_seabed", "mask_transient"}

\* the masks of a type among the dataset given and the list
SameTypeClash ==
    \/ \E i, j \in DOMAIN tMasks :
          i < j /\ tMasks[i].attrs.mask_type = tMasks[j].attrs.mask_type
    \/ \E i \in DOMAIN tMasks : ("mask_" \o tMasks[i].attrs.mask_type) \in DOMAIN tInput

\* C10: when two masks of the list, or a mask and a variable of the dataset,
\* have the same mask_type, attach_masks_to_dataset succeeds and the
\* variable mask_<mask_type> holds the values and attributes of the later
\* mask.
C10_LaterMaskWins ==
    (tPc = "done" /\ SameTypeClash) =>
        /\ tOutcome = "returned"
        /\ \A i \in DOMAIN tMasks :
              (\A j \in DOMAIN tMasks :
                  tMasks[j].attrs.mask_type = tMasks[i].attrs.mask_type => j <= i) =>
                tStore[tCur]["mask_" \o tMasks[i].attrs.mask_type] = AsVariable(tMasks[i])

\* ---------------------------------------------------------------------------
\* The preset mask functions of noise_masks.py
\* ---------------------------------------------------------------------------
\* create_transient_mask, create_impulse_mask, create_attenuation_mask and
\* create_seabed_mask: the mask the echopype detection returns
create_transient_mask(parameters, method) ==
    [data |-> [func |-> "get_transient_noise_mask_multichannel",
               method |-> method, parameters |-> parameters],
     attrs |-> << >>]

create_impulse_mask(parameters, method) ==
    [data |-> [func |-> "get_impulse_noise_mask_multichannel",
               method |-> method, parameters |-> parameters],
     attrs |-> << >>]

create_attenuation_mask(parameters, method) ==
    [data |-> [func |-> "get_attenuation_mask_multichannel",
               method |-> method, parameters |-> parameters],
     attrs |-> << >>]

create_seabed_mask(parameters, method) ==
    [data |-> [func |-> "get_seabed_mask_multichannel",
               method |-> method, parameters |-> parameters],
     attrs |-> << >>]

\* one creation of a preset: the create_*_mask call (its function, the
\* method and the integer-valued parameters passed) and the metadata dict
\* given to add_metadata_to_mask
PresetItem(create, method, parameters, mask_type, stamped_method) ==
    [create |-> create, method |-> method, parameters |-> parameters,
     mask_type |-> mask_type, stamped_method |-> stamped_method]

\* create_noise_masks_rapidkrill, in creation order
rapidkrill_plan ==
    <<PresetItem("transient", "ryan",
                 <<<<"m", 5>>, <<"n", 20>>, <<"thr", 20>>, <<"excludeabove", 250>>>>,
                 "transient", "ryan"),
      PresetItem("attenuation", "ryan",
                 <<<<"r0", 180>>, <<"r1", 280>>, <<"n", 30>>, <<"thr", -6>>,
                   <<"start", 0>>, <<"offset", 0>>>>,
                 "attenuation", "ryan"),
      PresetItem("impulse", "ryan", <<<<"thr", 10>>, <<"m", 5>>, <<"n", 1>>>>,
                 "impulse", "ryan"),
      PresetItem("seabed", "ariza",
                 <<<<"r0", 10>>, <<"r1", 1000>>, <<"roff", 0>>, <<"thr", -40>>,
                   <<"ec", 1>>, <<"dc", 10>>>>,
                 "seabed", "ariza"),
      PresetItem("seabed", "blackwell",
                 <<<<"r0", 10>>, <<"r1", 1000>>, <<"tSv", -75>>, <<"ttheta", 702>>,
                   <<"tphi", 282>>, <<"wtheta", 28>>, <<"wphi", 52>>>>,
                 "false_seabed", "blackwell")>>

\* masks = [transient_mask, impulse_mask, attenuation_mask, seabed_mask,
\* seabed_echo_mask], as positions in the creation order
rapidkrill_attach_order == <<1, 3, 2, 4, 5>>

\* create_default_noise_masks_oceanstream, in creation order
default_oceanstream_plan ==
    <<rapidkrill_plan[1], rapidkrill_plan[2], rapidkrill_plan[3],
      PresetItem("seabed", "blackwell_mod",
                 <<<<"r0", 10>>, <<"r1", 1000>>, <<"tSv", -75>>, <<"ttheta", 702>>,
                   <<"tphi", 282>>, <<"wtheta", 28>>, <<"wphi", 52>>, <<"rank", 50>>>>,
                 "false_seabed", "blackwell_mod"),
      rapidkrill_plan[4]>>

\* masks = [transient_mask, impulse_mask, attenuation_mask, seabed_echo_mask,
\* seabed_mask]
default_oceanstream_attach_order == <<1, 3, 2, 4, 5>>

\* create_noise_masks_oceanstream, in creation order
oceanstream_plan ==
    <<PresetItem("transient", "fielding",
                 <<<<"r0", 200>>, <<"r1", 1000>>, <<"n", 5>>, <<"roff", 250>>,
                   <<"jumps", 5>>, <<"maxts", -35>>, <<"start", 0>>>>,
                 "transient", "ryan"),
      PresetItem("attenuation", "ryan",
                 <<<<"r0", 180>>, <<"r1", 280>>, <<"n", 5>>, <<"thr", -5>>,
                   <<"start", 0>>, <<"offset", 0>>>>,
                 "attenuation", "ryan"),
      PresetItem("impulse", "ryan", <<<<"thr", 3>>, <<"m", 3>>, <<"n", 1>>>>,
                 "impulse", "ryan")>>

\* masks = [transient_mask, impulse_mask, attenuation_mask]
oceanstream_attach_order == <<1, 3, 2>>

PresetFunctions ==
    {"create_noise_masks_rapidkrill", "create_default_noise_masks_oceanstream",
     "create_noise_masks_oceanstream"}

PresetPlan(f) ==
    CASE f = "create_noise_masks_rapidkrill" -> rapidkrill_plan
      [] f = "create_default_noise_masks_oceanstream" -> default_oceanstream_plan
      [] OTHER -> oceanstream_plan

PresetAttachOrder(f) ==
    CASE f = "create_noise_masks_rapidkrill" -> rapidkrill_attach_order
      [] f = "create_default_noise_masks_oceanstream" -> default_oceanstream_attach_order
      [] OTHER -> oceanstream_attach_order

\* the create_*_mask call of an item
PresetCreate(item) ==
    CASE item.create = "transient" -> create_transient_mask(item.parameters, item.method)
      [] item.create = "impulse" -> create_impulse_mask(item.parameters, item.method)
      [] item.create = "attenuation" -> create_attenuation_mask(item.parameters, item.method)
      [] OTHER -> create_seabed_mask(item.parameters, item.method)

\* the blackwell and blackwell_mod seabed detections read the split-beam
\* angles of source_Sv and fail when the dataset has none
PresetDetectionRaises(source, item) ==
    /\ item.method \in {"blackwell", "blackwell_mod"}
    /\ "angle_alongship" \notin DOMAIN source

\* the create_*_mask call of an item followed by add_metadata_to_mask
PresetStampedMask(item) ==
    add_metadata_to_mask(
        PresetCreate(item),
        [mask_type |-> item.mask_type,
         method |-> item.stamped_method,
         parameters |-> dict_to_formatted_list(item.parameters)])

\* the datasets a caller may pass to a preset: Sv, with or without the
\* split-beam angles, with or without masks attached by an earlier call
PresetInputs ==
    {[n \in {"Sv"} \cup ang \cup {"mask_" \o k : k \in att} |->
         IF n = "Sv" THEN [data |-> "Sv values", attrs |-> [long_name |-> "Sv"]]
         ELSE IF n \in ang THEN [data |-> "angle values", attrs |-> [long_name |-> n]]
         ELSE EarlierMask(CHOOSE k \in att : n = "mask_" \o k)] :
       att \in SUBSET {"transient", "seabed", "attenuation"},
       ang \in {{}, {"angle_alongship", "angle_athwartship"}}}

InitPreset ==
    /\ IdleApply
    /\ IdleCreate
    /\ IdleShoal
    /\ IdleAttach
    /\ IdleRest("preset")
    /\ pFunc \in PresetFunctions
    /\ pSource \in PresetInputs
    /\ pPc = "create"
    /\ pIdx = 1
    /\ pMasks = << >>
    /\ pSv = << >>
    /\ pOutcome = "running"

\* one creation of the preset: x_mask = create_x_mask(source_Sv, ...);
\* x_mask = add_metadata_to_mask(mask=x_mask, metadata={...})
PresetCreateStep ==
    /\ pPc = "create"
    /\ pIdx <= Len(PresetPlan(pFunc))
    /\ LET item == PresetPlan(pFunc)[pIdx] IN
       IF PresetDetectionRaises(pSource, item)
       THEN /\ pPc' = "done"
            /\ pOutcome' = "detection error"
            /\ UNCHANGED <<pIdx, pMasks>>
       ELSE /\ pMasks' = Append(pMasks, PresetStampedMask(item))
            /\ pIdx' = pIdx + 1
            /\ UNCHANGED <<pPc, pOutcome>>
    /\ UNCHANGED <<pFunc, pSource, pSv>>
    /\ UNCHANGED <<coreVars, organismVars, freqVars, cliVars, integrityVars, laterVars>>

\* masks = [...]; the call attach_masks_to_dataset(source_Sv, masks) begins
PresetAttachBegin ==
    /\ pPc = "create"
    /\ pIdx > Len(PresetPlan(pFunc))
    /\ pPc' = "attach"
    /\ pIdx' = 1
    /\ pSv' = pSource
    /\ UNCHANGED <<pFunc, pSource, pMasks, pOutcome>>
    /\ UNCHANGED <<coreVars, organismVars, freqVars, cliVars, integrityVars, laterVars>>

\* one iteration of: for mask in masks: Sv = attach_mask_to_dataset(Sv, mask)
PresetAttachStep ==
    /\ pPc = "attach"
    /\ pIdx <= Len(PresetAttachOrder(pFunc))
    /\ LET mask == pMasks[PresetAttachOrder(pFunc)[pIdx]] IN
       IF AttachRaises(pSv, mask)
       THEN /\ pPc' = "done"
            /\ pOutcome' = "ValueError"
            /\ UNCHANGED <<pIdx, pSv>>
       ELSE /\ pSv' = attach_mask_to_dataset(pSv, mask)
            /\ pIdx' = pIdx + 1
            /\ UNCHANGED <<pPc, pOutcome>>
    /\ UNCHANGED <<pFunc, pSource, pMasks>>
    /\ UNCHANGED <<coreVars, organismVars, freqVars, cliVars, integrityVars, laterVars>>

\* return Sv_mask
PresetReturn ==
    /\ pPc = "attach"
    /\ pIdx > Len(PresetAttachOrder(pFunc))
    /\ pPc' = "done"
    /\ pOutcome' = "returned"
    /\ UNCHANGED <<pFunc, pSource, pIdx, pMasks, pSv>>
    /\ UNCHANGED <<coreVars, organismVars, freqVars, cliVars, integrityVars, laterVars>>

NextPreset ==
    \/ PresetCreateStep
    \/ PresetAttachBegin
    \/ PresetAttachStep
    \/ PresetReturn

SpecPreset == InitPreset /\ [][NextPreset]_vars

\* the stamp of a mask agrees with the detection call that produced it
StampAgrees(mask) ==
    /\ mask.attrs # << >>
    /\ mask.attrs.mask_type \in DOMAIN MASK_CREATION_FUNCTIONS
    /\ MASK_CREATION_FUNCTIONS[mask.attrs.mask_type] = mask.data.func
    /\ mask.attrs.method = mask.data.method
    /\ mask.attrs.parameters = dict_to_formatted_list(mask.data.parameters)

\* C11: every mask a factory has produced carries mask_type of its kind,
\* the method that was passed to the detection function that produced it
\* and the 'key=value' list of the parameters passed to that function: the
\* masks of the preset functions, in the list and once attached to the
\* returned dataset, and the masks of create_masks.
C11_StampedProvenance ==
    /\ \A i \in DOMAIN pMasks : StampAgrees(pMasks[i])
    /\ \A i \in DOMAIN cMasks : StampAgrees(cMasks[i][2])
    /\ pOutcome = "returned" =>
          \A i \in DOMAIN pMasks :
              StampAgrees(pSv["mask_" \o pMasks[i].attrs.mask_type])

\* C12: an enabled kind that is not in MASK_CREATION_FUNCTIONS makes
\* create_masks raise: a call whose config enables such a kind never
\* returns normally.
C12_UnrecognizedKindRaises ==
    (\E k \in DOMAIN cConfig : cConfig[k] /\ k \notin DOMAIN MASK_CREATION_FUNCTIONS)
        => cOutcome # "returned"

\* C13: a call with only recognized names returns, and the masks it has
\* applied are exactly the requested masks that are attached to the
\* dataset: a requested mask that is not attached is skipped and the later
\* requested ones are still applied, an attached mask that is not requested
\* is never applied, and a sample of the returned Sv is missing exactly when
\* one of those masks is False there.
C13_RequestedAndAttached ==
    ~HasUnrecognizedKey =>
        /\ aOutcome # "ValueError"
        /\ Range(aApplied) \cap noise_mask_names
              \subseteq Range(aRequest) \cap DOMAIN aCaller.masks
        /\ aOutcome = "returned" =>
              /\ Range(aApplied) \cap noise_mask_names
                    = Range(aRequest) \cap DOMAIN aCaller.masks
              /\ \A c \in ApplyCells :
                    aDs.Sv[c] = NaN <=>
                       \E n \in Range(aRequest) \cap DOMAIN aCaller.masks :
                           c \notin aCaller.masks[n]

\* the call returned after skipping a requested mask that is not attached,
\* applying a mask requested after it, and leaving an attached mask that
\* was not requested unapplied
C13_Witness ==
    /\ aOutcome = "returned"
    /\ Len(aRequest) >= 2
    /\ aRequest[1] = "mask_impulse"
    /\ "mask_impulse" \notin DOMAIN aCaller.masks
    /\ "mask_seabed" \in Range(aApplied)
    /\ "mask_attenuation" \in DOMAIN aCaller.masks
    /\ "mask_attenuation" \notin Range(aRequest)

\* the call the order claims are about: mask_seabed and mask_impulse
\* requested, in that key order, on a dataset with both attached
SeabedThenImpulseCall ==
    /\ aOutcome = "returned"
    /\ aRequest = <<"mask_seabed", "mask_impulse">>
    /\ {"mask_seabed", "mask_impulse"} \subseteq DOMAIN aCaller.masks

\* apply_mask of the first mask, then apply_mask of the second, by hand
ManualApply(ds, first, second) ==
    ep_apply_mask(ep_apply_mask(ds, ds.masks[first]), ds.masks[second])

\* C17 as stated: the output of the handler differs from the output of
\* applying mask_seabed and then mask_impulse manually.
C17_OrderObservable ==
    SeabedThenImpulseCall =>
        aDs # ManualApply(aCaller, "mask_seabed", "mask_impulse")

\* C17 as amended: the output of the handler is the output of applying
\* mask_impulse and then mask_seabed manually, and it equals the output of
\* applying mask_seabed and then mask_impulse: the two applications commute.
C17_OrderNotObservable ==
    SeabedThenImpulseCall =>
        /\ aDs = ManualApply(aCaller, "mask_impulse", "mask_seabed")
        /\ aDs = ManualApply(aCaller, "mask_seabed", "mask_impulse")

\* the call returned a dataset in which each of the two masks removed a
\* sample the other one kept
C17_Witness ==
    /\ SeabedThenImpulseCall
    /\ \E c \in ApplyCells :
          c \notin aCaller.masks["mask_impulse"] /\ c \in aCaller.masks["mask_seabed"]
    /\ \E c \in ApplyCells :
          c \in aCaller.masks["mask_impulse"] /\ c \notin aCaller.masks["mask_seabed"]
    /\ \A c \in ApplyCells :
          aDs.Sv[c] = NaN <=>
             (c \notin aCaller.masks["mask_impulse"] \/ c \notin aCaller.masks["mask_seabed"])

\* ---------------------------------------------------------------------------
\* apply_mask_organisms_in_order
\* ---------------------------------------------------------------------------
recognized_masks ==
    <<"mask_krill", "mask_gas_bearing_organisms", "mask_fluid_like_organisms",
      "mask_shoal">>

\* keys a caller may put in processes_to_apply: the four recognized ones and
\* one that the organism handler does not recognise (a noise mask)
OrganismRequestKeys == Range(recognized_masks) \cup {"mask_seabed"}

\* the boolean values of each organism mask, as the set of cells where the
\* mask is True
OrganismMask(name) ==
    CASE name = "mask_krill" -> {c \in ApplyCells : c # 1}
      [] name = "mask_gas_bearing_organisms" -> {c \in ApplyCells : c # 2}
      [] name = "mask_fluid_like_organisms" -> {c \in ApplyCells : c > 1}
      [] OTHER -> {c \in ApplyCells : c < NumApplyCells}

\* datasets the caller may pass: Sv and any subset of the organism masks
OrganismInputs ==
    {[Sv |-> [c \in ApplyCells |-> c],
      masks |-> [n \in att |-> OrganismMask(n)]] :
        att \in SUBSET Range(recognized_masks)}

InitOrganism ==
    /\ IdleApply
    /\ IdleCreate
    /\ IdleShoal
    /\ IdleAttach
    /\ IdleRest("organism")
    /\ oCaller \in OrganismInputs
    /\ oRequest \in KeySeqs(OrganismRequestKeys, MaxRequest)
    /\ oDs = oCaller
    /\ oIdx = 1
    /\ oApplied = << >>
    /\ oPc = "loop"
    /\ oOutcome = "running"

\* a handler that would visit the requested masks in the order of
\* recognized_masks
OrganismOrderFixed ==
    SelectSeq(recognized_masks, LAMBDA n : n \in Range(oRequest))

\* processes_to_apply.keys()
OrganismOrder == oRequest

\* ds[mask_name] raises KeyError when the dataset has no such variable
xr_getitem_raises(ds, name) == name \notin DOMAIN ds.masks

\* one iteration of: for mask_name in processes_to_apply.keys()
OrganismStep ==
    /\ oPc = "loop"
    /\ oIdx <= Len(OrganismOrder)
    /\ LET mask_name == OrganismOrder[oIdx] IN
       IF mask_name \notin Range(recognized_masks)
       THEN /\ oPc' = "done"
            /\ oOutcome' = "ValueError"
            /\ UNCHANGED <<oDs, oIdx, oApplied>>
       ELSE IF xr_getitem_raises(oDs, mask_name)
       THEN /\ oPc' = "done"
            /\ oOutcome' = "KeyError"
            /\ UNCHANGED <<oDs, oIdx, oApplied>>
       ELSE /\ oDs' = ep_apply_mask(oDs, oDs.masks[mask_name])
            /\ oApplied' = Append(oApplied, mask_name)
            /\ oIdx' = oIdx + 1
            /\ UNCHANGED <<oPc, oOutcome>>
    /\ UNCHANGED <<oCaller, oRequest>>
    /\ UNCHANGED <<coreVars, presetVars, freqVars, cliVars, integrityVars, laterVars>>

\* return ds
OrganismReturn ==
    /\ oPc = "loop"
    /\ oIdx > Len(OrganismOrder)
    /\ oPc' = "done"
    /\ oOutcome' = "returned"
    /\ UNCHANGED <<oCaller, oRequest, oDs, oIdx, oApplied>>
    /\ UNCHANGED <<coreVars, presetVars, freqVars, cliVars, integrityVars, laterVars>>

NextOrganism ==
    \/ OrganismStep
    \/ OrganismReturn

SpecOrganism == InitOrganism /\ [][NextOrganism]_vars

\* C14: the organism masks are applied one after the other in the order of
\* the keys of processes_to_apply: at every moment the masks applied so far
\* are the first keys of the request, in the caller's order, and a call
\* that returns has applied all of them in that order.
C14_CallerOrder ==
    /\ Len(oApplied) <= Len(oRequest)
    /\ oApplied = SubSeq(oRequest, 1, Len(oApplied))
    /\ oOutcome = "returned" => oApplied = oRequest

\* the call returned after applying mask_shoal before mask_krill, the
\* reverse of their order in recognized_masks
C14_Witness ==
    /\ oOutcome = "returned"
    /\ oRequest = <<"mask_shoal", "mask_krill">>
    /\ oApplied = <<"mask_shoal", "mask_krill">>
    /\ \E c \in ApplyCells : oDs.Sv[c] = NaN

HasUnrecognizedOrganismKey ==
    \E i \in DOMAIN oRequest : oRequest[i] \notin Range(recognized_masks)

\* C15: a name outside the four recognized masks makes the call raise
\* ValueError without having applied any mask, the recognized masks listed
\* before it included.
C15_OrganismFailFast ==
    HasUnrecognizedOrganismKey =>
        /\ oApplied = << >>
        /\ oDs = oCaller
        /\ oOutcome # "returned"
        /\ oPc = "done" => oOutcome = "ValueError"

\* C16: a requested recognized mask that is not attached is skipped without
\* raising and the remaining requested masks are applied: a call with only
\* recognized names never raises, and when it returns it has applied the
\* requested masks that are attached, in the caller's order.
C16_SkipsMissing ==
    ~HasUnrecognizedOrganismKey =>
        /\ oOutcome \notin {"KeyError", "ValueError"}
        /\ oOutcome = "returned" =>
              oApplied = SelectSeq(oRequest, LAMBDA n : n \in DOMAIN oCaller.masks)

\* ---------------------------------------------------------------------------
\* find_mask_freq_diff and apply_freq_diff
\* ---------------------------------------------------------------------------
FreqDiffFunctions == {"find_mask_freq_diff", "apply_freq_diff"}

FreqDiffParams ==
    {"single_operator", "single_value", "interval_start_operator",
     "interval_start_value", "interval_end_operator", "interval_end_value"}

\* the value a caller gives to a parameter when it gives one
FreqDiffValue(param) ==
    CASE param = "single_operator" -> ">"
      [] param = "single_value" -> "2.0"
      [] param = "interval_start_operator" -> ">="
      [] param = "interval_start_value" -> "2.0"
      [] param = "interval_end_operator" -> "<="
      [] OTHER -> "16.0"

\* every choice of the parameters given and left at their default None
FreqDiffInputs ==
    {[q \in FreqDiffParams |-> IF q \in given THEN Some(FreqDiffValue(q)) ELSE None] :
        given \in SUBSET FreqDiffParams}

chanA == "GPT 120 kHz"
chanB == "GPT  38 kHz"

\* f'"{chanA}" - "{chanB}" {operator} {value}dB'
chanABEq(operator, value) ==
    "\"" \o chanA \o "\" - \"" \o chanB \o "\" " \o operator \o " " \o value \o "dB"

\* ep.mask.frequency_differencing(source_Sv=ds, chanABEq=...)
frequency_differencing(eq) == <<"frequency_differencing", eq>>

\* if single_operator is not None and single_value is not None
SingleFormTaken(args) ==
    args["single_operator"] # None /\ args["single_value"] # None

\* elif all four interval parameters are not None
IntervalFormTaken(args) ==
    /\ args["interval_start_operator"] # None
    /\ args["interval_start_value"] # None
    /\ args["interval_end_operator"] # None
    /\ args["interval_end_value"] # None

\* the mask built by the branch taken
FreqDiffMask(args) ==
    IF SingleFormTaken(args)
    THEN frequency_differencing(
            chanABEq(args["single_operator"][1], args["single_value"][1]))
    ELSE <<"and",
           frequency_differencing(
               chanABEq(args["interval_start_operator"][1],
                        args["interval_start_value"][1])),
           frequency_differencing(
               chanABEq(args["interval_end_operator"][1],
                        args["interval_end_value"][1]))>>

InitFreqDiff ==
    /\ IdleApply
    /\ IdleCreate
    /\ IdleShoal
    /\ IdleAttach
    /\ IdleRest("freq")
    /\ fFunc \in FreqDiffFunctions
    /\ fArgs \in FreqDiffInputs
    /\ fPc = "call"
    /\ fResult = << >>
    /\ fOutcome = "running"

\* the body of find_mask_freq_diff, and of apply_freq_diff, which returns
\* ep.mask.apply_mask(ds, mask) instead of the mask
FreqDiffCall ==
    /\ fPc = "call"
    /\ fPc' = "done"
    /\ IF SingleFormTaken(fArgs) \/ IntervalFormTaken(fArgs)
       THEN /\ fResult' = IF fFunc = "find_mask_freq_diff"
                          THEN FreqDiffMask(fArgs)
                          ELSE <<"apply_mask", "ds", FreqDiffMask(fArgs)>>
            /\ fOutcome' = "returned"
       ELSE /\ fOutcome' = "ValueError"
            /\ UNCHANGED fResult
    /\ UNCHANGED <<fFunc, fArgs>>
    /\ UNCHANGED <<coreVars, presetVars, organismVars, cliVars, integrityVars, laterVars>>

NextFreqDiff == FreqDiffCall

SpecFreqDiff == InitFreqDiff /\ [][NextFreqDiff]_vars

SingleParams == {"single_operator", "single_value"}

GivenParams(args) == {q \in DOMAIN args : args[q] # None}

\* exactly one of the two forms is fully specified and nothing of the other
\* form is given
ExactlyOneForm(args) ==
    \/ GivenParams(args) = SingleParams
    \/ GivenParams(args) = FreqDiffParams \ SingleParams

\* C18: the builder accepts a call only when exactly one of the two forms is
\* fully specified; every other combination of the optional parameters, both
\* forms fully specified and one form with part of the other included,
\* raises ValueError.
C18_ExactlyOneForm ==
    fPc = "done" =>
        /\ ExactlyOneForm(fArgs) => fOutcome = "returned"
        /\ ~ExactlyOneForm(fArgs) => fOutcome = "ValueError"

\* ---------------------------------------------------------------------------
\* cli.main and cli.process_file
\* ---------------------------------------------------------------------------
\* the statements of process_file that call other code, in order
process_file_calls ==
    <<"load_config", "initialize", "read_file", "compute_sv_with_encode_mode",
      "write_processed", "create_enriched_sv", "create_masks",
      "attach_mask_to_dataset", "apply_noise_masks",
      "apply_background_noise_removal", "export_csv", "apply_seabed_mask",
      "plot_all_channels", "write_shoals_csv", "compute_and_write_nasc",
      "display_profiling_and_summary_info">>

\* the statement is not executed: the attach loop with no masks, the CSV
\* export without config["export_csv"]
CallSkipped(call) ==
    \/ call = "attach_mask_to_dataset" /\ kMasks = 0
    \/ call = "export_csv" /\ ~kExportCsv

\* the statement cannot return: process_file passes mask_type= to
\* utils.attach_mask_to_dataset(Sv, mask), which has no such parameter
CallAlwaysRaises(call) == call = "attach_mask_to_dataset" /\ kMasks > 0

\* the exit status of a process whose main returned normally
EXIT_SUCCESS == 0

\* sys.exit(1)
EXIT_NOT_A_FILE == 1

InitCli ==
    /\ IdleApply
    /\ IdleCreate
    /\ IdleShoal
    /\ IdleAttach
    /\ IdleRest("cli")
    /\ kIsFile \in BOOLEAN
    /\ kExportCsv \in BOOLEAN
    /\ kMasks \in 0..MaxMasks
    /\ kStage = 1
    /\ kRaised = None
    /\ kLogged = FALSE
    /\ kExit = None
    /\ kPc = "main"

\* main up to: if os.path.isfile(data_source): ... else: print; sys.exit(1)
CliMain ==
    /\ kPc = "main"
    /\ IF kIsFile
       THEN /\ kPc' = "process"
            /\ UNCHANGED kExit
       ELSE /\ kPc' = "done"
            /\ kExit' = Some(EXIT_NOT_A_FILE)
    /\ UNCHANGED <<kIsFile, kExportCsv, kMasks, kStage, kRaised, kLogged>>
    /\ UNCHANGED <<coreVars, presetVars, organismVars, freqVars, integrityVars, laterVars>>

\* one statement of process_file returns, or is skipped
CliCallReturns ==
    /\ kPc = "process"
    /\ kStage <= Len(process_file_calls)
    /\ ~CallAlwaysRaises(process_file_calls[kStage])
    /\ kStage' = kStage + 1
    /\ UNCHANGED <<kIsFile, kExportCsv, kMasks, kRaised, kLogged, kExit, kPc>>
    /\ UNCHANGED <<coreVars, presetVars, organismVars, freqVars, integrityVars, laterVars>>

\* one statement of process_file raises: the exception leaves process_file
\* and asyncio.run, main's except clause calls logging.exception, and main
\* returns
CliCallRaises ==
    /\ kPc = "process"
    /\ kStage <= Len(process_file_calls)
    /\ ~CallSkipped(process_file_calls[kStage])
    /\ kRaised' = Some(process_file_calls[kStage])
    /\ kLogged' = TRUE
    /\ kExit' = Some(EXIT_SUCCESS)
    /\ kPc' = "done"
    /\ UNCHANGED <<kIsFile, kExportCsv, kMasks, kStage>>
    /\ UNCHANGED <<coreVars, presetVars, organismVars, freqVars, integrityVars, laterVars>>

\* process_file returns and main returns
CliReturn ==
    /\ kPc = "process"
    /\ kStage > Len(process_file_calls)
    /\ kExit' = Some(EXIT_SUCCESS)
    /\ kPc' = "done"
    /\ UNCHANGED <<kIsFile, kExportCsv, kMasks, kStage, kRaised, kLogged>>
    /\ UNCHANGED <<coreVars, presetVars, organismVars, freqVars, integrityVars, laterVars>>

NextCli ==
    \/ CliMain
    \/ CliCallReturns
    \/ CliCallRaises
    \/ CliReturn

SpecCli == InitCli /\ [][NextCli]_vars

\* C19: when the processing of the input file raises an exception, main
\* logs the error and the process exits with a non-zero status.
C19_ErrorExitsNonZero ==
    (kPc = "done" /\ kRaised # None) =>
        /\ kLogged
        /\ kExit # None
        /\ kExit # Some(EXIT_SUCCESS)

\* ---------------------------------------------------------------------------
\* raw_handler.file_integrity_checking
\* ---------------------------------------------------------------------------
\* the files a caller may pass. The name is <campaign>[-D<date>][-T<time>]<ext>;
\* date and time are the digit groups the patterns capture, or None when the
\* name has no such part; content says what RawSimradFile reads from the file
IntegrityFiles ==
    [campaign : {"JR161"},
     date : {None, Some(<<2023, 5, 9>>), Some(<<2023, 2, 30>>)},
     time : {None, Some(<<10, 6, 45>>), Some(<<24, 0, 0>>)},
     ext : {".raw", ".RAW", ".nc", ".zarr", ".txt"},
     content : {"unreadable", "EK60", "EK80"}]

\* str.lower() on the extensions above
lower(ext) == IF ext = ".RAW" THEN ".raw" ELSE ext

\* file_name.split("-")[0]: the name up to the first "-", the whole name
\* when it has none
FirstSegment(file) ==
    IF file.date = None /\ file.time = None
    THEN file.campaign \o file.ext
    ELSE file.campaign

\* parse_metadata(file_path): the configuration datagram, or None when
\* reading it raised
parse_metadata(file) ==
    CASE file.content = "EK60" ->
            Some([survey_name |-> Some("JR161 survey"),
                  timestamp |-> Some(<<"datagram time">>),
                  sounder_name |-> Some("ER60"),
                  application_name |-> None])
      [] file.content = "EK80" ->
            Some([survey_name |-> None,
                  timestamp |-> Some(<<"datagram time">>),
                  sounder_name |-> None,
                  application_name |-> Some("EK80")])
      [] OTHER -> None

\* detect_sonar_model(file_path, metadata=metadata) for a datagram
detect_sonar_model(metadata) ==
    IF metadata.sounder_name = None
    THEN IF metadata.application_name = Some("EK80") THEN Some("EK80") ELSE None
    ELSE IF metadata.sounder_name[1] \in {"EK60", "ER60"}
         THEN Some("EK60")
         ELSE metadata.sounder_name

\* re.findall(pattern, file_name)[0] raises IndexError when nothing matches
FindallRaises(file) == file.date = None \/ file.time = None

DaysInMonth(year, month) ==
    CASE month \in {4, 6, 9, 11} -> 30
      [] month = 2 ->
            IF (year % 4 = 0 /\ year % 100 # 0) \/ year % 400 = 0 THEN 29 ELSE 28
      [] OTHER -> 31

\* datetime.strptime(datetime_string, "D%Y%m%d-T%H%M%S") raises ValueError
\* on a date or a time of day that does not exist
StrptimeRaises(file) ==
    LET d == file.date[1]
        t == file.time[1]
    IN ~ /\ d[1] \in 1..9999
         /\ d[2] \in 1..12
         /\ d[3] \in 1..DaysInMonth(d[1], d[2])
         /\ t[1] \in 0..23
         /\ t[2] \in 0..59
         /\ t[3] \in 0..61

\* the except clause starts with e += "!": adding a str to the exception
\* object raises TypeError
ExceptBodyRaises == TRUE

InitIntegrity ==
    /\ IdleApply
    /\ IdleCreate
    /\ IdleShoal
    /\ IdleAttach
    /\ IdleRest("integrity")
    /\ iFile \in IntegrityFiles
    /\ iUseSwap \in BOOLEAN
    /\ iLocals = << >>
    /\ iResult = << >>
    /\ iPc = "extension"
    /\ iOutcome = "running"

\* the extension test, the initial values of the locals, and for a raw file
\* the metadata of the configuration datagram
IntegrityExtension ==
    /\ iPc = "extension"
    /\ IF lower(iFile.ext) \notin {".raw", ".nc", ".zarr"}
       THEN /\ iPc' = "done"
            /\ iOutcome' = "Exception"
            /\ UNCHANGED iLocals
       ELSE /\ LET metadata == IF lower(iFile.ext) = ".raw"
                               THEN parse_metadata(iFile) ELSE None
               IN iLocals' =
                    IF metadata # None
                    THEN [metadata |-> metadata,
                          campaign_id |-> metadata[1].survey_name,
                          date |-> metadata[1].timestamp,
                          sonar_model |-> detect_sonar_model(metadata[1]),
                          file_integrity |-> TRUE]
                    ELSE [metadata |-> None, campaign_id |-> None, date |-> None,
                          sonar_model |-> None, file_integrity |-> TRUE]
            /\ iPc' = "name"
            /\ UNCHANGED iOutcome
    /\ UNCHANGED <<iFile, iUseSwap, iResult>>
    /\ UNCHANGED <<coreVars, presetVars, organismVars, freqVars, cliVars, laterVars>>

\* if not metadata: the campaign and the timestamp are taken from the name
IntegrityName ==
    /\ iPc = "name"
    /\ IF iLocals.metadata # None
       THEN /\ iPc' = "return"
            /\ UNCHANGED <<iLocals, iOutcome>>
       ELSE IF FindallRaises(iFile) \/ StrptimeRaises(iFile)
       THEN IF ExceptBodyRaises
            THEN /\ iPc' = "done"
                 /\ iOutcome' = "TypeError"
                 /\ iLocals' = [iLocals EXCEPT !.campaign_id = Some(FirstSegment(iFile))]
            ELSE /\ iPc' = "return"
                 /\ iLocals' = [iLocals EXCEPT !.campaign_id = Some(FirstSegment(iFile)),
                                               !.file_integrity = FALSE,
                                               !.date = None]
                 /\ UNCHANGED iOutcome
       ELSE /\ iPc' = "return"
            /\ iLocals' = [iLocals EXCEPT !.campaign_id = Some(FirstSegment(iFile)),
                                          !.date = Some(<<iFile.date[1], iFile.time[1]>>)]
            /\ UNCHANGED iOutcome
    /\ UNCHANGED <<iFile, iUseSwap, iResult>>
    /\ UNCHANGED <<coreVars, presetVars, organismVars, freqVars, cliVars, laterVars>>

\* return_dict is filled and returned
IntegrityReturn ==
    /\ iPc = "return"
    /\ iResult' =
          [file_path |-> Some(iFile),
           campaign_id |-> iLocals.campaign_id,
           date |-> iLocals.date,
           file_integrity |-> Some(iLocals.file_integrity),
           sonar_model |-> iLocals.sonar_model,
           use_swap |-> IF lower(iFile.ext) = ".raw" THEN Some(iUseSwap) ELSE None]
    /\ iPc' = "done"
    /\ iOutcome' = "returned"
    /\ UNCHANGED <<iFile, iUseSwap, iLocals>>
    /\ UNCHANGED <<coreVars, presetVars, organismVars, freqVars, cliVars, laterVars>>

NextIntegrity ==
    \/ IntegrityExtension
    \/ IntegrityName
    \/ IntegrityReturn

SpecIntegrity == InitIntegrity /\ [][NextIntegrity]_vars

\* a supported extension, no metadata, and a name without a parseable
\* D<date>-T<time> timestamp
NoMetadataNoTimestamp ==
    /\ lower(iFile.ext) \in {".raw", ".nc", ".zarr"}
    /\ (lower(iFile.ext) = ".raw" => parse_metadata(iFile) = None)
    /\ (FindallRaises(iFile) \/ StrptimeRaises(iFile))

\* C20: for such a file the call returns a dict with file_integrity False
\* and date None instead of raising.
C20_IntegrityFalseNotRaise ==
    (iPc = "done" /\ NoMetadataNoTimestamp) =>
        /\ iOutcome = "returned"
        /\ iResult.file_integrity = Some(FALSE)
        /\ iResult.date = None

\* C29: process_shoals returns the placeholder record only when mask_shoal
\* has no True cell: whenever the mask has a True cell, every cell True
\* included, the call returns at least one record, and every record has a
\* label and an area (stated for volumes with no missing Sv sample).
C29_PlaceholderOnlyWhenEmpty ==
    (sPc = "done" /\ TrueCells(sMask) # {} /\ sMissing = {}) =>
        /\ sOutcome = "returned"
        /\ Len(sResult) >= 1
        /\ \A i \in DOMAIN sResult :
              /\ sResult[i] # None
              /\ sResult[i][1].label # None
              /\ sResult[i][1].area # None

\* ---------------------------------------------------------------------------
\* apply_masks.apply_seabed_mask
\* ---------------------------------------------------------------------------
\* a guard that would apply the seabed masks when either kind is enabled
SeabedGuardEither(config) == config.seabed \/ config.false_seabed

\* if config["seabed"]["enabled"] and config["false_seabed"]["enabled"]
SeabedGuard(config) == config.seabed /\ config.false_seabed

\* the keys of params, in insertion order
seabed_params == <<"mask_seabed", "mask_false_seabed">>

InitSeabed ==
    /\ IdleApply
    /\ IdleCreate
    /\ IdleShoal
    /\ IdleAttach
    /\ IdleRest("seabed")
    /\ bConfig \in [seabed : BOOLEAN, false_seabed : BOOLEAN]
    /\ bDs \in ApplyInputs
    /\ bPc = "call"
    /\ bResult = << >>

\* apply_seabed_mask up to the call of apply_selected_masks(ds, params), or
\* to return ds when the guard is false
SeabedCall ==
    /\ bPc = "call"
    /\ IF SeabedGuard(bConfig)
       THEN /\ aCaller' = bDs
            /\ aRequest' = seabed_params
            /\ aDs' = bDs
            /\ aPc' = "validate"
            /\ aIdx' = 1
            /\ aApplied' = << >>
            /\ aOutcome' = "running"
            /\ bPc' = "applying"
            /\ UNCHANGED bResult
       ELSE /\ bResult' = bDs
            /\ bPc' = "done"
            /\ UNCHANGED applyVars
    /\ UNCHANGED <<bConfig, bDs>>
    /\ UNCHANGED notSeabedVars

\* return ds_processed
SeabedReturn ==
    /\ bPc = "applying"
    /\ aPc = "done"
    /\ aOutcome = "returned"
    /\ bResult' = aDs
    /\ bPc' = "done"
    /\ UNCHANGED <<bConfig, bDs>>
    /\ UNCHANGED applyVars
    /\ UNCHANGED notSeabedVars

NextSeabed ==
    \/ SeabedCall
    \/ ApplyValidateStep
    \/ ApplyValidateDone
    \/ ApplyProcessStep
    \/ ApplyReturn
    \/ SeabedReturn

SpecSeabed == InitSeabed /\ [][NextSeabed]_vars

\* the seabed masks attached to a dataset, false seabed first
AttachedSeabedMasks(ds) ==
    SelectSeq(<<"mask_false_seabed", "mask_seabed">>, LAMBDA n : n \in DOMAIN ds.masks)

\* C30: the seabed masks are applied only when both seabed and false_seabed
\* are enabled, and then mask_false_seabed before mask_seabed; with only
\* one of the two enabled (or none) the handler is never called, no mask is
\* applied although it is attached, and the dataset is returned unchanged.
C30_SeabedBothOrNothing ==
    /\ (bConfig # << >> /\ ~(bConfig.seabed /\ bConfig.false_seabed)) =>
          /\ aPc = "idle"
          /\ aApplied = << >>
          /\ bPc = "done" => bResult = bDs
    /\ (bPc = "done" /\ bConfig.seabed /\ bConfig.false_seabed) =>
          /\ aApplied = AttachedSeabedMasks(bDs)
          /\ \A c \in ApplyCells :
                bResult.Sv[c] = NaN <=>
                   \E n \in Range(AttachedSeabedMasks(bDs)) : c \notin bDs.masks[n]

\* both kinds enabled, both masks attached: false seabed then seabed applied
C30_Witness ==
    /\ bPc = "done"
    /\ bConfig.seabed /\ bConfig.false_seabed
    /\ aApplied = <<"mask_false_seabed", "mask_seabed">>
    /\ bResult # bDs

\* ---------------------------------------------------------------------------
\* create_masks: concurrency and termination
\* ---------------------------------------------------------------------------
\* the kinds the submit loop submits
EnabledKinds == {k \in DOMAIN MASK_CREATION_FUNCTIONS : cConfig[k]}

\* C25: no kind's creation waits for another kind's: when a result is
\* collected every enabled kind that has a creation function has been
\* submitted, and a queued creation
\* call can start (a worker is free) however many other calls are running;
\* a running call can always complete.
C25_NoKindWaits ==
    /\ cYielded # {} =>
          /\ cPc # "submit"
          /\ Range(cFutureKind) = EnabledKinds
    /\ \A f \in FuturesIn("queued") : ENABLED WorkerStart(f)
    /\ \A f \in FuturesIn("running") : ENABLED WorkerFinish(f, TRUE)

\* a later-submitted call has returned while an earlier one is still running
\* and a third one has not started yet
C25_Witness ==
    \E f, g, h \in DOMAIN cFutureState :
        /\ f < g
        /\ cFutureState[f] = "running"
        /\ cFutureState[g] = "ok"
        /\ cFutureState[h] = "queued"
        /\ g \in cYielded

\* every submitted creation call has returned or raised
AllFinished == FuturesIn("queued") \cup FuturesIn("running") = {}

\* the worker pool takes queued calls and the main thread runs; a creation
\* call is external code and is not required to finish
FairCreate ==
    /\ WF_vars(CreateSubmitStep)
    /\ WF_vars(CreateSubmitDone)
    /\ WF_vars(\E f \in DOMAIN cFutureState : WorkerStart(f))
    /\ WF_vars(\E f \in DOMAIN cFutureState : CreateCollectStep(f))
    /\ WF_vars(CreateReturn)

SpecCreateFair == InitCreate /\ [][NextCreate]_vars /\ FairCreate

\* C26: create_masks returns only after every submitted creation call has
\* returned or raised (so never while one is hung), and if every submitted
\* call eventually finishes it eventually returns.
C26_ReturnsAfterAll ==
    /\ [](cPc = "done" => (cPc # "submit" /\ cIdx > Len(ConfigKeys) /\ AllFinished))
    /\ (<>[](cPc # "submit" /\ AllFinished)) => <>(cOutcome = "returned")

\* create_masks has returned after one call raised and another returned
C26_Witness ==
    /\ cOutcome = "returned"
    /\ \E f, g \in DOMAIN cFutureState :
          cFutureState[f] = "ok" /\ cFutureState[g] = "exc"

\* one call hangs: the others are collected and create_masks is still waiting
C26_HungWitness ==
    /\ cPc = "collect"
    /\ FuturesIn("running") # {}
    /\ cYielded = FuturesIn("ok") \cup FuturesIn("exc")
    /\ cYielded # {}

\* ---------------------------------------------------------------------------
\* sv_dataset_extension.enrich_sv_dataset
\* ---------------------------------------------------------------------------
depth_keys == {"depth_offset", "tilt", "downward"}
location_keys == {"nmea_sentence"}
splitbeam_keys == {"waveform_mode", "encode_mode", "pulse_compression",
                   "storage_options", "return_dataset"}

\* the keyword arguments a caller gives
EnrichKwargs == {"depth_offset", "nmea_sentence", "waveform_mode", "encode_mode"}

EnrichFunctions == {"add_depth", "add_location", "add_splitbeam_angle"}

\* what each echopype call adds to the dataset when it succeeds
EnrichAdds(fn) ==
    CASE fn = "add_depth" -> {"depth"}
      [] fn = "add_location" -> {"latitude", "longitude"}
      [] fn = "add_splitbeam_angle" -> {"angle_alongship", "angle_athwartship"}

\* a call outside any try block: its exception leaves enrich_sv_dataset
EnrichTryUnguarded(fn) == IF eRaises[fn] THEN "propagate" ELSE "ok"

\* try: fn(...) except Exception as e: warnings.warn(...)
EnrichTry(fn) == IF eRaises[fn] THEN "warn" ELSE "ok"

InitEnrich ==
    /\ IdleApply
    /\ IdleCreate
    /\ IdleShoal
    /\ IdleAttach
    /\ IdleRest("enrich")
    /\ eKwargs \in SUBSET EnrichKwargs
    /\ eRaises \in [EnrichFunctions -> BOOLEAN]
    /\ ePc = "depth"
    /\ eCalls = << >>
    /\ eWarnings = << >>
    /\ eSv = {}
    /\ eOutcome = "running"

\* one of the three guarded calls, with the keyword arguments selected for it
EnrichAttempt(fn, keys, next) ==
    /\ eCalls' = Append(eCalls, <<fn, eKwargs \cap keys>>)
    /\ CASE EnrichTry(fn) = "ok" ->
              /\ eSv' = eSv \cup EnrichAdds(fn)
              /\ ePc' = next
              /\ UNCHANGED <<eWarnings, eOutcome>>
         [] EnrichTry(fn) = "warn" ->
              /\ eWarnings' = Append(eWarnings, fn)
              /\ ePc' = next
              /\ UNCHANGED <<eSv, eOutcome>>
         [] OTHER ->
              /\ ePc' = "done"
              /\ eOutcome' = "raised"
              /\ UNCHANGED <<eSv, eWarnings>>
    /\ UNCHANGED <<eKwargs, eRaises>>
    /\ UNCHANGED notEnrichVars

EnrichDepth ==
    /\ ePc = "depth"
    /\ EnrichAttempt("add_depth", depth_keys, "location")

EnrichLocation ==
    /\ ePc = "location"
    /\ EnrichAttempt("add_location", location_keys, "angle")

EnrichAngle ==
    /\ ePc = "angle"
    /\ EnrichAttempt("add_splitbeam_angle", splitbeam_keys, "return")

\* return enriched_sv
EnrichReturn ==
    /\ ePc = "return"
    /\ ePc' = "done"
    /\ eOutcome' = "returned"
    /\ UNCHANGED <<eKwargs, eRaises, eCalls, eWarnings, eSv>>
    /\ UNCHANGED notEnrichVars

NextEnrich ==
    \/ EnrichDepth
    \/ EnrichLocation
    \/ EnrichAngle
    \/ EnrichReturn

SpecEnrich == InitEnrich /\ [][NextEnrich]_vars

EnrichOrder == <<"add_depth", "add_location", "add_splitbeam_angle">>

\* C21: enrich_sv_dataset attempts add_depth, add_location and
\* add_splitbeam_angle once each, in that order; each call that fails gives
\* one warning and does not stop the later calls; the function never raises
\* and returns a dataset.
C21_EnrichNeverRaises ==
    /\ eOutcome # "raised"
    /\ ePc = "done" =>
          /\ eOutcome = "returned"
          /\ [i \in DOMAIN eCalls |-> eCalls[i][1]] = EnrichOrder
          /\ eWarnings = SelectSeq(EnrichOrder, LAMBDA fn : eRaises[fn])

\* add_depth and add_location failed, add_splitbeam_angle was still called
\* and succeeded, and the dataset was returned
C21_Witness ==
    /\ ePc = "done"
    /\ eOutcome = "returned"
    /\ eRaises["add_depth"] /\ eRaises["add_location"]
    /\ ~eRaises["add_splitbeam_angle"]
    /\ Len(eWarnings) = 2
    /\ eSv = {"angle_alongship", "angle_athwartship"}

\* ---------------------------------------------------------------------------
\* ensure_time_continuity.fix_time_reversions
\* ---------------------------------------------------------------------------
\* length of a time coordinate and largest time value of the model
TimeLen == 3
MaxTime == 2

\* strings that the code iterates or unpacks are sequences of characters
BeamGroup1 == <<"S", "o", "n", "a", "r", "/", "B", "e", "a", "m", "_",
                "g", "r", "o", "u", "p", "1">>
BeamGroup2 == <<"S", "o", "n", "a", "r", "/", "B", "e", "a", "m", "_",
                "g", "r", "o", "u", "p", "2">>
PingTimeName == <<"p", "i", "n", "g", "_", "t", "i", "m", "e">>

\* DEFAULT_TIME_DICT = {"Sonar/Beam_group1": "ping_time"}; a dict is the
\* sequence of its (key, value) items in insertion order
DEFAULT_TIME_DICT == [kind |-> "dict", items |-> << <<BeamGroup1, PingTimeName>> >>]

TimeSeries == [1..TimeLen -> 1..MaxTime]

\* an unprocessed file with one beam group, or with two
ErInputs ==
    [{BeamGroup1} -> [{PingTimeName} -> TimeSeries]]
       \cup [{BeamGroup1, BeamGroup2} -> [{PingTimeName} -> TimeSeries]]

TimeItems ==
    { << >>,
      << <<BeamGroup1, PingTimeName>> >>,
      << <<BeamGroup2, PingTimeName>> >>,
      << <<BeamGroup1, PingTimeName>>, <<BeamGroup2, PingTimeName>> >> }

\* time_dict as callers give it: omitted, a dict, or the list of its items
TimeDictInputs ==
    {None} \cup [kind : {"dict", "pairs"}, items : TimeItems]

\* what iterating time_dict yields: the keys of a dict, the elements of a list
IterTimeDict(d) ==
    IF d.kind = "dict" THEN [i \in DOMAIN d.items |-> d.items[i][1]] ELSE d.items

\* dim, time = x: the two elements of x, or ValueError when x has not two
UnpackPair(x) == IF Len(x) = 2 THEN Some(<<x[1], x[2]>>) ELSE None

\* echopype.qc.exist_reversed_time: some time is earlier than the one before
exist_reversed_time(series) ==
    \E i \in 1..(Len(series) - 1) : series[i + 1] < series[i]

\* check_reversed_time(ed, dimension, time_name)
check_reversed_time(ed, dimension, time_name) ==
    exist_reversed_time(ed[dimension][time_name])

\* echopype.qc.coerce_increasing_time: the coordinate is made to flow forward
coerce_increasing_time(ds, time_name) ==
    [ds EXCEPT ![time_name] =
        [i \in DOMAIN ds[time_name] |->
            Max({ds[time_name][j] : j \in 1..i})]]

InitTime ==
    /\ IdleApply
    /\ IdleCreate
    /\ IdleShoal
    /\ IdleAttach
    /\ IdleRest("time")
    /\ fxEr \in ErInputs
    /\ fxGiven \in TimeDictInputs
    /\ fxTimeDict = << >>
    /\ fxIdx = 0
    /\ fxPc = "start"
    /\ fxOutcome = "running"

\* if time_dict is None: time_dict = DEFAULT_TIME_DICT
FixStart ==
    /\ fxPc = "start"
    /\ fxTimeDict' = IF fxGiven = None THEN DEFAULT_TIME_DICT ELSE fxGiven
    /\ fxIdx' = 1
    /\ fxPc' = "loop"
    /\ UNCHANGED <<fxEr, fxGiven, fxOutcome>>
    /\ UNCHANGED notTimeVars

\* one iteration of: for dim, time in time_dict
FixIterate ==
    /\ fxPc = "loop"
    /\ fxIdx <= Len(IterTimeDict(fxTimeDict))
    /\ LET unpacked == UnpackPair(IterTimeDict(fxTimeDict)[fxIdx]) IN
       IF unpacked = None
       THEN /\ fxOutcome' = "ValueError"
            /\ fxPc' = "done"
            /\ UNCHANGED <<fxEr, fxIdx>>
       ELSE LET dim == unpacked[1][1]
                time == unpacked[1][2]
            IN IF dim \notin DOMAIN fxEr \/ time \notin DOMAIN fxEr[dim]
               THEN /\ fxOutcome' = "KeyError"
                    /\ fxPc' = "done"
                    /\ UNCHANGED <<fxEr, fxIdx>>
               ELSE /\ fxEr' = IF check_reversed_time(fxEr, dim, time)
                               THEN [fxEr EXCEPT ![dim] =
                                        coerce_increasing_time(fxEr[dim], time)]
                               ELSE fxEr
                    /\ fxIdx' = fxIdx + 1
                    /\ UNCHANGED <<fxPc, fxOutcome>>
    /\ UNCHANGED <<fxGiven, fxTimeDict>>
    /\ UNCHANGED notTimeVars

\* return er
FixReturn ==
    /\ fxPc = "loop"
    /\ fxIdx > Len(IterTimeDict(fxTimeDict))
    /\ fxPc' = "done"
    /\ fxOutcome' = "returned"
    /\ UNCHANGED <<fxEr, fxGiven, fxTimeDict, fxIdx>>
    /\ UNCHANGED notTimeVars

NextTime ==
    \/ FixStart
    \/ FixIterate
    \/ FixReturn

SpecTime == InitTime /\ [][NextTime]_vars

\* C22: fix_time_reversions(er, time_dict) returns the dataset with the time
\* coordinate of every (beam group, time name) entry of time_dict coerced to
\* increase: check_reversed_time is False for each entry afterwards, also
\* when time_dict is omitted and the default entry is used.
C22_EveryEntryCoerced ==
    fxPc = "done" =>
        /\ fxOutcome = "returned"
        /\ \A i \in DOMAIN fxTimeDict.items :
              ~check_reversed_time(fxEr, fxTimeDict.items[i][1], fxTimeDict.items[i][2])

\* ---------------------------------------------------------------------------
\* sv_interpolation.interpolate_sv
\* ---------------------------------------------------------------------------
\* channels and pings of the interpolated volume; every channel is shown
\* with one range_sample, the interpolation working on each separately
InterpChannels == 2
InterpPings == 3

InterpSeries == [1..InterpPings -> {NaN, 1}]

\* a dataset: global attributes, coordinates and data variables
InterpDatasets ==
    [attrs : {"attrs"}, coords : {"coords"},
     data_vars : [{"Sv", "mask_impulse"} -> [1..InterpChannels -> InterpSeries]]]

\* the input volumes: every pattern of missing Sv samples, one other variable
InterpInputs ==
    {d \in InterpDatasets :
        d.data_vars["mask_impulse"] = [c \in 1..InterpChannels |-> [p \in 1..InterpPings |-> 1]]}

\* xr.where(db.isnull(), np.nan, 10 ** (db / 10)), with base 2 on integers
db_to_linear(db) == [p \in DOMAIN db |-> IF db[p] = NaN THEN NaN ELSE 2 ^ db[p]]

RECURSIVE Log2(_)
Log2(n) == IF n <= 1 THEN 0 ELSE 1 + Log2(n \div 2)

\* xr.where(linear.isnull(), np.nan, 10 * np.log10(linear))
linear_to_db(linear) ==
    [p \in DOMAIN linear |-> IF linear[p] = NaN THEN NaN ELSE Log2(linear[p])]

\* the pings before p, and after p, that hold a sample
Earlier(y, p) == {q \in DOMAIN y : q < p /\ y[q] # NaN}
Later(y, p) == {q \in DOMAIN y : q > p /\ y[q] # NaN}

\* an interpolation that extends the nearest sample beyond the first and the
\* last one
interpolate_na_extrapolating(y) ==
    [p \in DOMAIN y |->
        IF y[p] # NaN THEN y[p]
        ELSE IF Earlier(y, p) # {} THEN y[Max(Earlier(y, p))]
        ELSE IF Later(y, p) # {} THEN y[Min(Later(y, p))]
        ELSE NaN]

\* DataArray.interpolate_na(dim="ping_time", method="linear"): a missing
\* sample between two samples gets the value on the line through its
\* neighbours; outside the first and the last sample it stays missing
interpolate_na(y) ==
    [p \in DOMAIN y |->
        IF y[p] # NaN THEN y[p]
        ELSE IF Earlier(y, p) # {} /\ Later(y, p) # {}
             THEN LET a == Max(Earlier(y, p))
                      b == Min(Later(y, p))
                  IN (y[a] * (b - p) + y[b] * (p - a)) \div (b - a)
             ELSE NaN]

\* DataArray.ffill(dim="ping_time")
ffill(y) ==
    [p \in DOMAIN y |->
        IF y[p] # NaN THEN y[p]
        ELSE IF Earlier(y, p) # {} THEN y[Max(Earlier(y, p))] ELSE NaN]

\* DataArray.bfill(dim="ping_time")
bfill(y) ==
    [p \in DOMAIN y |->
        IF y[p] # NaN THEN y[p]
        ELSE IF Later(y, p) # {} THEN y[Min(Later(y, p))] ELSE NaN]

\* the body of the channel loop
InterpolateChannel(channel_data, with_edge_fill) ==
    LET interpolated == interpolate_na(db_to_linear(channel_data))
    IN linear_to_db(IF with_edge_fill THEN bfill(ffill(interpolated))
                    ELSE interpolated)

\* dataset[name] = value on a dataset
xr_setitem(ds, name, value) ==
    [ds EXCEPT !.data_vars =
        [n \in DOMAIN ds.data_vars \cup {name} |->
            IF n = name THEN value ELSE ds.data_vars[n]]]

InitInterp ==
    /\ IdleApply
    /\ IdleCreate
    /\ IdleShoal
    /\ IdleAttach
    /\ IdleRest("interp")
    /\ vIn \in InterpInputs
    /\ vKind \in {"dataset", "path"}
    /\ vEdge \in BOOLEAN
    /\ vHeap = [o \in {"arg", "fresh"} |->
                  IF o = "arg" /\ vKind = "dataset" THEN Some(vIn) ELSE None]
    /\ vDataset = None
    /\ vCh = 0
    /\ vProcessed = << >>
    /\ vPc = "load"
    /\ vResult = None

\* dataset = sv, or dataset = read_processed(path_to_file)
InterpLoad ==
    /\ vPc = "load"
    /\ IF vKind = "dataset"
       THEN /\ vDataset' = Some("arg")
            /\ UNCHANGED vHeap
       ELSE /\ vDataset' = Some("fresh")
            /\ vHeap' = [vHeap EXCEPT !["fresh"] = Some(vIn)]
    /\ vCh' = 1
    /\ vPc' = "loop"
    /\ UNCHANGED <<vIn, vKind, vEdge, vProcessed, vResult>>
    /\ UNCHANGED notInterpVars

\* one iteration of: for channel in sv_dataarray["channel"]
InterpChannel ==
    /\ vPc = "loop"
    /\ vCh <= InterpChannels
    /\ vProcessed' =
          Append(vProcessed,
                 InterpolateChannel(vHeap[vDataset[1]][1].data_vars["Sv"][vCh], vEdge))
    /\ vCh' = vCh + 1
    /\ UNCHANGED <<vIn, vKind, vEdge, vHeap, vDataset, vPc, vResult>>
    /\ UNCHANGED notInterpVars

\* dataset["Sv_interpolated"] = xr.concat(processed_channels); return dataset
InterpReturn ==
    /\ vPc = "loop"
    /\ vCh > InterpChannels
    /\ vHeap' = [vHeap EXCEPT ![vDataset[1]] =
                    Some(xr_setitem(vHeap[vDataset[1]][1], "Sv_interpolated", vProcessed))]
    /\ vResult' = vDataset
    /\ vPc' = "done"
    /\ UNCHANGED <<vIn, vKind, vEdge, vDataset, vCh, vProcessed>>
    /\ UNCHANGED notInterpVars

NextInterp ==
    \/ InterpLoad
    \/ InterpChannel
    \/ InterpReturn

SpecInterp == InitInterp /\ [][NextInterp]_vars

\* the dataset returned
InterpResult == vHeap[vResult[1]][1]

\* C27: interpolate_sv is copy-on-write: given a dataset it returns another
\* object and the dataset passed in still has the variables and values it
\* had; in the result the attributes, the coordinates and every data variable
\* other than the backscatter are those of the input.
C27_CopyOnWrite ==
    vPc = "done" =>
        /\ vKind = "dataset" =>
              /\ vResult # Some("arg")
              /\ vHeap["arg"] = Some(vIn)
        /\ InterpResult.attrs = vIn.attrs
        /\ InterpResult.coords = vIn.coords
        /\ \A n \in DOMAIN vIn.data_vars :
              n # "Sv" => InterpResult.data_vars[n] = vIn.data_vars[n]

\* the interpolated backscatter of the result and the backscatter given
InterpOut == InterpResult.data_vars["Sv_interpolated"]
InterpSv == vIn.data_vars["Sv"]

C28_EdgeWitness ==
    /\ vPc = "done"
    /\ vEdge
    /\ InterpSv[1] = <<NaN, 1, NaN>>
    /\ \A p \in 1..InterpPings : InterpOut[1][p] # NaN
    /\ \A p \in 1..InterpPings : InterpSv[2][p] = NaN /\ InterpOut[2][p] = NaN

\* ---------------------------------------------------------------------------
\* sv_interpolation.regrid_dataset
\* ---------------------------------------------------------------------------
RegridChannels == 1..NumChannels
RegridPings == 1..NumPings
RegridSamples == 1..NumSamples

\* dataset.data_vars, in order, and the dimensions of each variable
RegridVarNames == <<"Sv", "echo_range", "frequency_nominal", "latitude">>

RegridDims(var_name) ==
    CASE var_name \in {"Sv", "echo_range"} -> <<"channel", "ping_time", "range_sample">>
      [] var_name = "frequency_nominal" -> <<"channel">>
      [] var_name = "latitude" -> <<"ping_time">>
      [] OTHER -> <<var_name>>   \* an index coordinate

\* echo_range of a channel with n samples of size bin, NaN beyond them
EchoRange(n, bin) ==
    [p \in RegridPings |-> [k \in RegridSamples |-> IF k <= n THEN (k - 1) * bin ELSE NaN]]

\* Sv of a channel with n samples
RegridSv(ch, n) ==
    [p \in RegridPings |->
        [k \in RegridSamples |-> IF k <= n THEN 1 + ((ch + p + k) % 2) ELSE NaN]]

\* a volume whose channels differ in range and in resolution
RegridDataset(n, bin, lat, attrs) ==
    [attrs |-> attrs,
     coords |-> [channel |-> [c \in RegridChannels |-> c],
                 ping_time |-> [p \in RegridPings |-> 10 * p],
                 range_sample |-> [k \in RegridSamples |-> k - 1]],
     data_vars |->
        [Sv |-> [c \in RegridChannels |-> RegridSv(c, n[c])],
         echo_range |-> [c \in RegridChannels |-> EchoRange(n[c], bin[c])],
         frequency_nominal |-> [c \in RegridChannels |-> 38 * c],
         latitude |-> lat]]

RegridInputs ==
    {RegridDataset(n, bin, lat, attrs) :
        n \in [RegridChannels -> RegridSamples],
        bin \in [RegridChannels -> 1..2],
        lat \in {[p \in RegridPings |-> 50], [p \in RegridPings |-> 50 + p]},
        attrs \in {[keywords |-> "EK60"], [keywords |-> "EK80"]}}

\* np.nanargmax(row), counted from 1: the first position of the largest value
nanargmax(row) ==
    LET valid == {k \in DOMAIN row : row[k] # NaN}
        top == Max({row[k] : k \in valid})
    IN Min({k \in valid : row[k] = top})

\* np.max(np.nanargmax(echo_range[ch, :, :], axis=1)), counted from 1
ChannelArgMax(dataset, ch) ==
    Max({nanargmax(dataset.data_vars["echo_range"][ch][p]) : p \in RegridPings})

\* find_lowest_resolution_channel: the first channel whose deepest sample has
\* the lowest index, and that index
find_lowest_resolution_channel(dataset) ==
    LET lowest == Min({ChannelArgMax(dataset, ch) : ch \in RegridChannels})
    IN <<Min({ch \in RegridChannels : ChannelArgMax(dataset, ch) = lowest}), lowest>>

\* find_impacted_variables(dataset, target_dim="range_sample")
find_impacted_variables(dataset, target_dim) ==
    {v \in DOMAIN dataset.data_vars \cup DOMAIN dataset.coords :
        target_dim \in Range(RegridDims(v)) /\ v # target_dim}

\* interp1d(x, y, kind="nearest", bounds_error=False, fill_value=np.nan)(d)
Nearest(x, y, d) ==
    LET valid == {k \in DOMAIN x : x[k] # NaN}
    IN IF valid = {} \/ d = NaN THEN NaN
       ELSE IF d < Min({x[k] : k \in valid}) \/ d > Max({x[k] : k \in valid}) THEN NaN
       ELSE LET best == Min({Abs(x[k] - d) : k \in valid})
            IN y[Min({k \in valid : Abs(x[k] - d) = best})]

\* resample_xarray(da, old_depth_da, new_depth_da, new_range_sample)
resample_xarray(name, da, old_depth_da, new_depth_da) ==
    [ch \in DOMAIN da |->
        [i \in DOMAIN da[ch] |->
            LET data == IF name = "Sv" THEN db_to_linear(da[ch][i]) ELSE da[ch][i]
                row == [k \in DOMAIN new_depth_da |->
                          Nearest(old_depth_da[ch], data, new_depth_da[k])]
            IN IF name = "Sv" THEN linear_to_db(row) ELSE row]]

\* the attributes of a dataset made by xr.Dataset()
regrid_attrs_empty(dataset) == << >>

\* new_dataset.attrs = dataset.attrs.copy()
regrid_attrs(dataset) == dataset.attrs

InitRegrid ==
    /\ IdleApply
    /\ IdleCreate
    /\ IdleShoal
    /\ IdleAttach
    /\ IdleRest("regrid")
    /\ gIn \in RegridInputs
    /\ gDataset = gIn
    /\ gNew = << >>
    /\ gGrid = << >>
    /\ gIdx = 0
    /\ gPc = "start"

\* new_dataset = xr.Dataset() and the new depth profile
RegridStart ==
    /\ gPc = "start"
    /\ LET found == find_lowest_resolution_channel(gDataset)
           channel == found[1]
           max_depth_idx == found[2]
           echo_range == gDataset.data_vars["echo_range"]
           per_ping_depth == [p \in RegridPings |-> nanargmax(echo_range[channel][p])]
           ping_with_max_depth == nanargmax(per_ping_depth)
       IN gGrid' =
            [new_range_sample |-> [k \in 1..Max(Range(per_ping_depth)) |-> k - 1],
             bin_depths |-> [ch \in RegridChannels |-> echo_range[ch][ping_with_max_depth]],
             new_bin_depths |-> SubSeq(echo_range[channel][ping_with_max_depth],
                                       1, max_depth_idx)]
    /\ gNew' = [attrs |-> << >>, coords |-> << >>, data_vars |-> << >>]
    /\ gPc' = "coords"
    /\ UNCHANGED <<gIn, gDataset, gIdx>>
    /\ UNCHANGED notRegridVars

\* for coord_name in dataset.coords
RegridCoords ==
    /\ gPc = "coords"
    /\ gNew' = [gNew EXCEPT !.coords =
                  [coord_name \in DOMAIN gDataset.coords |->
                      IF coord_name = "range_sample" THEN gGrid.new_range_sample
                      ELSE gDataset.coords[coord_name]]]
    /\ gIdx' = 1
    /\ gPc' = "vars"
    /\ UNCHANGED <<gIn, gDataset, gGrid>>
    /\ UNCHANGED notRegridVars

\* one iteration of: for var_name, data_array in dataset.data_vars.items()
RegridVar ==
    /\ gPc = "vars"
    /\ gIdx <= Len(RegridVarNames)
    /\ LET var_name == RegridVarNames[gIdx]
           data_array == gDataset.data_vars[var_name]
           value == IF var_name \in find_impacted_variables(gDataset, "range_sample")
                    THEN resample_xarray(var_name, data_array,
                                         gGrid.bin_depths, gGrid.new_bin_depths)
                    ELSE data_array
       IN gNew' = [gNew EXCEPT !.data_vars =
                     [v \in DOMAIN gNew.data_vars \cup {var_name} |->
                         IF v = var_name THEN value ELSE gNew.data_vars[v]]]
    /\ gIdx' = gIdx + 1
    /\ UNCHANGED <<gIn, gDataset, gGrid, gPc>>
    /\ UNCHANGED notRegridVars

\* new_dataset.attrs = dataset.attrs.copy(); return new_dataset
RegridReturn ==
    /\ gPc = "vars"
    /\ gIdx > Len(RegridVarNames)
    /\ gNew' = [gNew EXCEPT !.attrs = regrid_attrs(gDataset)]
    /\ gPc' = "done"
    /\ UNCHANGED <<gIn, gDataset, gGrid, gIdx>>
    /\ UNCHANGED notRegridVars

NextRegrid ==
    \/ RegridStart
    \/ RegridCoords
    \/ RegridVar
    \/ RegridReturn

SpecRegrid == InitRegrid /\ [][NextRegrid]_vars

\* C23: regrid_dataset returns a dataset whose global attributes equal the
\* input's and in which every variable without the range_sample dimension
\* (coordinate or data variable) has exactly the input's values; the input
\* dataset is not modified.
C23_RegridFrame ==
    gPc = "done" =>
        /\ gNew.attrs = gIn.attrs
        /\ \A v \in DOMAIN gIn.coords :
              "range_sample" \notin Range(RegridDims(v)) => gNew.coords[v] = gIn.coords[v]
        /\ \A v \in DOMAIN gIn.data_vars :
              "range_sample" \notin Range(RegridDims(v)) =>
                  gNew.data_vars[v] = gIn.data_vars[v]
        /\ gDataset = gIn

\* a regridding that changed the backscatter: a shorter range_sample axis
C23_Witness ==
    /\ gPc = "done"
    /\ Len(gNew.coords["range_sample"]) < Len(gIn.coords["range_sample"])
    /\ gNew.data_vars["Sv"] # gIn.data_vars["Sv"]
    /\ gIn.data_vars["latitude"][1] # gIn.data_vars["latitude"][2]

\* ---------------------------------------------------------------------------
\* raw_handler.split_files (raw_reader.split_files is the same code)
\* ---------------------------------------------------------------------------
\* longest list of file dicts of the model
MaxFiles == 3

\* time in minutes between two consecutive files
TIME_BETWEEN_FILES == 30

\* file dicts as file_integrity_checking returns them; dates in minutes
FileDicts ==
    [campaign_id : {"JR230", "JR179"}, sonar_model : {"EK60"},
     file_integrity : BOOLEAN, date : {0, 30, 61}]

SplitInputs == UNION {[1..n -> FileDicts] : n \in 0..MaxFiles}

\* date_diff = file_dict1["date"] - file_dict2["date"]
\* date_diff > timedelta(minutes=TIME_BETWEEN_FILES)
DateTooFar(file_dict1, file_dict2) ==
    file_dict1.date - file_dict2.date > TIME_BETWEEN_FILES

_is_similar(file_dict1, file_dict2) ==
    IF file_dict1.campaign_id # file_dict2.campaign_id THEN FALSE
    ELSE IF file_dict1.sonar_model # file_dict2.sonar_model THEN FALSE
    ELSE IF file_dict1.file_integrity # file_dict2.file_integrity THEN FALSE
    ELSE IF DateTooFar(file_dict1, file_dict2) THEN FALSE
    ELSE TRUE

InitSplit ==
    /\ IdleApply
    /\ IdleCreate
    /\ IdleShoal
    /\ IdleAttach
    /\ IdleRest("split")
    /\ lFiles \in SplitInputs
    /\ lLists = << >>
    /\ lTemp = << >>
    /\ lPrev = None
    /\ lIdx = 0
    /\ lPc = "start"
    /\ lOutcome = "running"

\* list_of_lists = []; temp_list = []; prev_elem = file_dicts[0]
SplitStart ==
    /\ lPc = "start"
    /\ IF lFiles = << >>
       THEN /\ lOutcome' = "IndexError"
            /\ lPc' = "done"
            /\ UNCHANGED <<lPrev, lIdx>>
       ELSE /\ lPrev' = Some(lFiles[1])
            /\ lIdx' = 1
            /\ lPc' = "loop"
            /\ UNCHANGED lOutcome
    /\ UNCHANGED <<lFiles, lLists, lTemp>>
    /\ UNCHANGED notSplitVars

\* one iteration of: for elem in file_dicts
SplitStep ==
    /\ lPc = "loop"
    /\ lIdx <= Len(lFiles)
    /\ LET elem == lFiles[lIdx] IN
       /\ IF _is_similar(elem, lPrev[1])
          THEN /\ lTemp' = Append(lTemp, elem)
               /\ UNCHANGED lLists
          ELSE /\ lLists' = Append(lLists, lTemp)
               /\ lTemp' = <<elem>>
       /\ lPrev' = Some(elem)
    /\ lIdx' = lIdx + 1
    /\ UNCHANGED <<lFiles, lPc, lOutcome>>
    /\ UNCHANGED notSplitVars

\* list_of_lists.append(temp_list); return list_of_lists
SplitReturn ==
    /\ lPc = "loop"
    /\ lIdx > Len(lFiles)
    /\ lLists' = Append(lLists, lTemp)
    /\ lPc' = "done"
    /\ lOutcome' = "returned"
    /\ UNCHANGED <<lFiles, lTemp, lPrev, lIdx>>
    /\ UNCHANGED notSplitVars

NextSplit ==
    \/ SplitStart
    \/ SplitStep
    \/ SplitReturn

SpecSplit == InitSplit /\ [][NextSplit]_vars

RECURSIVE Concat(_)
Concat(lists) == IF lists = << >> THEN << >> ELSE Head(lists) \o Concat(Tail(lists))

\* the group that holds the i-th file of the input
GroupOf(lists, i) ==
    Min({g \in DOMAIN lists : i <= Len(Concat(SubSeq(lists, 1, g)))})

\* the criteria as the description of split_files states them
SimilarEitherOrder(a, b) ==
    /\ a.campaign_id = b.campaign_id
    /\ a.sonar_model = b.sonar_model
    /\ a.file_integrity = b.file_integrity
    /\ Abs(a.date - b.date) <= TIME_BETWEEN_FILES

\* C24: on a non-empty list split_files returns non-empty groups whose
\* concatenation is the input, two consecutive files being in the same group
\* exactly when campaign id, sonar model and file integrity agree and the
\* dates differ by at most TIME_BETWEEN_FILES minutes in either order; on an
\* empty list it raises.
C24_SplitGroups ==
    lPc = "done" =>
        IF lFiles = << >> THEN lOutcome = "IndexError"
        ELSE /\ lOutcome = "returned"
             /\ \A g \in DOMAIN lLists : lLists[g] # << >>
             /\ Concat(lLists) = lFiles
             /\ \A i \in 1..(Len(lFiles) - 1) :
                   GroupOf(lLists, i) = GroupOf(lLists, i + 1)
                      <=> SimilarEitherOrder(lFiles[i], lFiles[i + 1])

====
